---- MODULE Spec2Model ----
(***************************************************************************)
(* A model of the wasm interpreter core under src/rust/src/types: the      *)
(* frame/label machine (instance.rs), the opcode dispatcher                *)
(* (executable.rs), the linear memory (memory.rs) and the module loader    *)
(* (initializer.rs).                                                       *)
(*                                                                         *)
(* Machine words.  TLC's integers are 32 bits wide, so a u64 cell is kept  *)
(* as its four 16-bit limbs, least significant first, and a u32 as two.    *)
(* Every Rust cast (`as i32`, `as u32`, `as u64`) is an operator on limbs. *)
(*                                                                         *)
(* Results.  A Rust function that returns Result<T, E> and may also panic  *)
(* is modelled by an operator returning a record [k, s, v]: k = "ok" with  *)
(* the value v and the new state s, k = "err" (an Err, the interpreter's   *)
(* trap) or k = "panic" (a Rust panic: a host-level abort).                *)
(***************************************************************************)
EXTENDS Integers, Sequences, FiniteSets, TLC

VARIABLES inst, native, phase, last, build

vars == <<inst, native, phase, last, build>>

(***************************************************************************)
(* Limb arithmetic                                                         *)
(***************************************************************************)
Base == 256 * 256

HalfBase == Base \div 2

\* n as a two's-complement word of len limbs (n may be negative: sign extension)
RECURSIVE ToLimbs(_, _)
ToLimbs(n, len) ==
    IF len = 0 THEN <<>> ELSE <<n % Base>> \o ToLimbs(n \div Base, len - 1)

U32(n) == ToLimbs(n, 2)

U64(n) == ToLimbs(n, 4)

\* the all-ones words
U32Max == <<Base - 1, Base - 1>>

U64Max == <<Base - 1, Base - 1, Base - 1, Base - 1>>

\* `x as u32` of a u64 cell: the low two limbs
AsU32(c) == <<c[1], c[2]>>

\* `x as u64` of a u32: zero extension
ZeroExt(w) == <<w[1], w[2], 0, 0>>

\* `x as i32` of a u64 cell or u32 word: the low 32 bits read as signed
AsI32(c) == IF c[2] >= HalfBase THEN (c[2] - Base) * Base + c[1] ELSE c[2] * Base + c[1]

\* `x as u64` of an i32: sign extension
SignExt(x) == ToLimbs(x, 4)

\* the value of a word known to be below 2^31
ToInt(w) == w[2] * Base + w[1]

\* w > i32::MAX for a u64 cell
GtI32Max(c) == c[4] # 0 \/ c[3] # 0 \/ c[2] >= HalfBase

\* limbs of a + b + carry, followed by the carry out
RECURSIVE AddLimbs(_, _, _)
AddLimbs(a, b, carry) ==
    IF Len(a) = 0 THEN <<carry>>
    ELSE LET s == a[1] + b[1] + carry
         IN  <<s % Base>> \o AddLimbs(Tail(a), Tail(b), s \div Base)

\* a > b for words of one length
RECURSIVE GtLimbs(_, _)
GtLimbs(a, b) ==
    IF Len(a) = 0 THEN FALSE
    ELSE LET n == Len(a)
         IN  IF a[n] # b[n] THEN a[n] > b[n]
             ELSE GtLimbs(SubSeq(a, 1, n - 1), SubSeq(b, 1, n - 1))

IsZeroLimbs(a) == \A i \in 1..Len(a) : a[i] = 0

\* the one's complement, and the two's-complement negation, of a word
Complement(a) == [i \in 1..Len(a) |-> Base - 1 - a[i]]

ZeroLimbs(n) == [i \in 1..n |-> 0]

NegLimbs(a) == SubSeq(AddLimbs(Complement(a), ZeroLimbs(Len(a)), 1), 1, Len(a))

\* the sign bit of a word read as signed, and its magnitude as an unsigned word
IsNegLimbs(a) == a[Len(a)] >= HalfBase

AbsLimbs(a) == IF IsNegLimbs(a) THEN NegLimbs(a) ELSE a

\* bit i (0 = least significant) of a word
RECURSIVE Pow2(_)
Pow2(n) == IF n = 0 THEN 1 ELSE 2 * Pow2(n - 1)

BitOf(a, i) == (a[(i \div 16) + 1] \div Pow2(i % 16)) % 2

\* Unsigned division of words, b # 0, as the hardware divides: bit by bit from
\* the top, shifting the remainder left and subtracting the divisor when it
\* fits.  st holds the quotient so far and the remainder, which carries one
\* limb more than b; bx is b with a zero limb on top, r2 the shifted remainder.
DivStep(a, bx, quo, r2) ==
    IF GtLimbs(bx, r2)
    THEN [q |-> SubSeq(AddLimbs(quo, quo, 0), 1, Len(a)), r |-> r2]
    ELSE [q |-> SubSeq(AddLimbs(quo, quo, 1), 1, Len(a)),
          r |-> SubSeq(AddLimbs(r2, Complement(bx), 1), 1, Len(bx))]

\* the step for bit i of a
DivBit(a, bx, i, st) ==
    DivStep(a, bx, st.q, SubSeq(AddLimbs(st.r, st.r, BitOf(a, i)), 1, Len(bx)))

\* the steps for the bits hi down to lo of a, the upper half of them first
RECURSIVE DivBits(_, _, _, _, _)
DivBits(a, bx, hi, lo, st) ==
    IF hi = lo THEN DivBit(a, bx, hi, st)
    ELSE CHOOSE r \in {DivBits(a, bx, (hi + lo + 1) \div 2 - 1, lo, m) :
                          m \in {DivBits(a, bx, hi, (hi + lo + 1) \div 2, st)}} :
             TRUE

DivModU(a, b) ==
    CHOOSE r \in {[q |-> st.q, r |-> SubSeq(st.r, 1, Len(a))] :
                     st \in {DivBits(a, b \o <<0>>, 16 * Len(a) - 1, 0,
                                     [q |-> ZeroLimbs(Len(a)),
                                      r |-> ZeroLimbs(Len(a) + 1)])}} : TRUE

\* Rust's / and % on unsigned words (the caller has excluded b = 0)
DivU(a, b) == DivModU(a, b).q

RemU(a, b) == DivModU(a, b).r

\* a magnitude given its sign
Signed(w, neg) == IF neg THEN NegLimbs(w) ELSE w

\* Rust's / and % on signed words: the quotient truncates toward zero and the
\* remainder has the sign of the dividend (the caller has excluded b = 0 and
\* MIN / -1)
DivS(a, b) ==
    Signed(DivModU(AbsLimbs(a), AbsLimbs(b)).q, IsNegLimbs(a) # IsNegLimbs(b))

RemS(a, b) == Signed(DivModU(AbsLimbs(a), AbsLimbs(b)).r, IsNegLimbs(a))

\* iN::MIN and -1 as words of n limbs
MinLimbs(n) == [i \in 1..n |-> IF i = n THEN HalfBase ELSE 0]

OnesLimbs(n) == [i \in 1..n |-> Base - 1]

\* The builds of the crate: integer overflow of + panics in a debug build
\* ("attempt to add with overflow") and wraps in a release build.  The
\* variable build holds the one a behaviour runs.
Builds == {"debug", "release"}

\* results of the modelled Rust functions
Ok(s, v) == [k |-> "ok", s |-> s, v |-> v]

Err(s) == [k |-> "err", s |-> s, v |-> <<>>]

Panic(s) == [k |-> "panic", s |-> s, v |-> <<>>]

(***************************************************************************)
(* Linear memory (memory.rs).  data is the Vec<u8>: its length len, and    *)
(* its non-zero bytes as a function from their addresses (a byte outside   *)
(* the domain is 0).                                                       *)
(***************************************************************************)
PAGE_SIZE == 65536

MAX_PAGES == 65535

None == <<>>

Some(x) == <<x>>

MemByte(m, a) == IF a \in DOMAIN m.data THEN m.data[a] ELSE 0

\* self.data[off..off + Len(bs)].copy_from_slice(bs), the caller having
\* checked the range
SetBytes(data, off, bs) ==
    LET rng == off..(off + Len(bs) - 1)
        dom == (DOMAIN data \ rng) \cup {a \in rng : bs[a - off + 1] # 0}
    IN  [a \in dom |-> IF a \in rng THEN bs[a - off + 1] ELSE data[a]]

GetBytes(m, off, n) == [i \in 1..n |-> MemByte(m, off + i - 1)]

\* enc_u16 / enc_u32 / enc_u64: the little-endian bytes of a word
RECURSIVE EncLe(_)
EncLe(w) ==
    IF Len(w) = 0 THEN <<>> ELSE <<w[1] % 256, w[1] \div 256>> \o EncLe(Tail(w))

\* dec_u16 / dec_u32 / dec_u64: the word of little-endian bytes
RECURSIVE DecLe(_)
DecLe(bs) ==
    IF Len(bs) = 0 THEN <<>>
    ELSE <<bs[1] + 256 * bs[2]>> \o DecLe(Tail(Tail(bs)))

\* memory_load_n!: load_u16 / load_u32 / load_u64 (n = 2, 4, 8) of off: u32.
\* The check (off + n) as usize > data.len() is written off > len - n.
MemLoadN(m, off, n) ==
    IF off > m.len - n THEN Err(m) ELSE Ok(m, DecLe(GetBytes(m, off, n)))

\* load_u8
MemLoadU8(m, off) ==
    IF off > m.len - 1 THEN Err(m) ELSE Ok(m, <<MemByte(m, off)>>)

\* memory_store_n!: store_u8 / u16 / u32 / u64; bs are the bytes enc_uN writes
MemStoreN(m, off, bs) ==
    IF off > m.len - Len(bs) THEN Err(m)
    ELSE Ok([m EXCEPT !.data = SetBytes(m.data, off, bs)], <<>>)

\* Memory::read(off, dst) with dst.len() = n
MemRead(m, off, n) ==
    IF off + n > m.len THEN Err(m) ELSE Ok(m, GetBytes(m, off, n))

\* a write that lands one byte further on
MemWriteShifted(m, off, bs) ==
    IF off + Len(bs) > m.len THEN Err(m)
    ELSE Ok([m EXCEPT !.data = SetBytes(m.data, off + 1, bs)], <<>>)

\* Memory::write(off, dst)
MemWrite(m, off, bs) ==
    IF off + Len(bs) > m.len THEN Err(m)
    ELSE Ok([m EXCEPT !.data = SetBytes(m.data, off, bs)], <<>>)

\* Memory::init(limits)
MemInit(m, initial, maximum) ==
    IF initial > MAX_PAGES \/ initial > m.max_pages
    THEN Err([m EXCEPT !.initial = initial])
    ELSE Ok([m EXCEPT !.initial = initial, !.len = initial * PAGE_SIZE,
                      !.data = <<>>, !.pages = initial, !.maximum = maximum],
            <<>>)

\* a grow that hands back a fresh vector without the old bytes
MemGrowToCleared(m, newPages, b) ==
    IF m.len > newPages * PAGE_SIZE THEN Panic(m)
    ELSE Ok([m EXCEPT !.len = newPages * PAGE_SIZE, !.pages = newPages,
                      !.data = <<>>], U32(m.pages))

\* a grow that counts the pages and leaves the vector as it was
MemGrowToCounted(m, newPages, b) ==
    IF m.len > newPages * PAGE_SIZE THEN Panic(m)
    ELSE Ok([m EXCEPT !.pages = newPages], U32(m.pages))

\* Memory::grow(n), n a u32 word, in build b.  self.pages + n is a u32 sum:
\* on overflow a debug build panics and a release build goes on with the
\* wrapped sum.  vec![0; (pages + n) * PAGE_SIZE] followed by
\* v[..self.data.len()].copy_from_slice(&self.data) panics when the new
\* vector is shorter than the old one.
MemGrowTo(m, newPages, b) ==
    IF m.len > newPages * PAGE_SIZE THEN Panic(m)
    ELSE Ok([m EXCEPT !.len = newPages * PAGE_SIZE, !.pages = newPages], U32(m.pages))

MemGrowSum(m, sum, b) ==
    IF sum[3] # 0 /\ b = "debug" THEN Panic(m)
    ELSE IF m.maximum # None /\ GtLimbs(SubSeq(sum, 1, 2), U32(m.maximum[1]))
    THEN Ok(m, U32Max)
    ELSE IF GtLimbs(SubSeq(sum, 1, 2), U32(m.max_pages)) THEN Err(m)
    ELSE MemGrowTo(m, ToInt(sum), b)

MemGrow(m, n, b) == MemGrowSum(m, AddLimbs(U32(m.pages), n, 0), b)

\* Memory::clear(): self.data.fill(0)
MemClear(m) == Ok([m EXCEPT !.data = <<>>], <<>>)

\* Memory::default()
MemDefault ==
    [data |-> <<>>, len |-> 0, initial |-> 0, maximum |-> None,
     max_pages |-> 0, pages |-> 0]

\* create(bytes, maxFrames, maxStacks, maxLabels, maxPages) hands its maxPages
\* to the memory (the constructor of five arguments that the tests of
\* types/mod.rs call)
WithMaxPages(m, maxPages) == [m EXCEPT !.max_pages = maxPages]

(***************************************************************************)
(* Instruction pool (ins_pool.rs).  Pool is the u64 arena of a loaded      *)
(* module, Pool[i + 1] being data[i]: a decoded instruction (InsBits, as   *)
(* the record of its fields), an InsVec or a raw operand word.             *)
(***************************************************************************)
\* InsBits: opcode, block type (None = 0x80 set), operand size, payload (u32)
Ins(op, bt, osz, payload) == [op |-> op, bt |-> bt, osz |-> osz, payload |-> payload]

\* InsBits::no_result(op) and .add_payload(n), n given as a number
Op0(op) == Ins(op, None, 0, U32(0))

Op1(op, n) == Ins(op, None, 1, U32(n))

\* InsVec::new(offset, size) and InsVec::null()
InsVec(offset, size) == [offset |-> offset, size |-> size]

NullVec == InsVec(0, 0)

IsNullVec(v) == v = NullVec

\* InsPool::push_labels: the label words of a br_table, in table order
LabelWords(labels) == [i \in 1..Len(labels) |-> U64(labels[i])]

\* InsPool::read_ctl, BRTABLE arm: the label words and the default word are
\* pushed at the pool's end at, and the InsBits gets at as its payload and
\* (operand_size + 1) as u16 as its operand size
ReadBrTable(at, labels) == Ins("BRTABLE", None, (Len(labels) + 1) % Base, U32(at))

\* The pool words of a function `(param i32) block local.get 0 br_table
\* labels default end` laid out from at on: the block's body, its branch
\* vectors, the function body (at + 4), then the br_table's words.
BrTableBody(at, labels, default) ==
    << Ins("GETLOCAL", None, 0, U32(0)),
       ReadBrTable(at + 5, labels),
       InsVec(at, 2), NullVec,
       Ins("BLOCK", None, 0, U32(at + 2)) >>
       \o LabelWords(labels) \o <<U64(default)>>

\* the br_tables of the test module: labels and default label of brt, of
\* brtempty (no labels) and of brtwide (u16::MAX labels)
BrTables ==
    [brt |-> [labels |-> <<0, 1>>, default |-> 0],
     brtempty |-> [labels |-> <<>>, default |-> 1],
     brtwide |-> [labels |-> [i \in 1..(Base - 1) |-> 1], default |-> 0]]

\* where the br_table functions lie in the pool
BrTableAt == [brt |-> 69, brtempty |-> 77, brtwide |-> 83]

BrTablePool(name) ==
    BrTableBody(BrTableAt[name], BrTables[name].labels, BrTables[name].default)

\* where the bodies of keep and busy lie: behind the words of brtwide
KeepAt == BrTableAt.brtwide + Base + 5

\* keep (param i32): local.get 0; i32.const 3; call busy; drop -- a caller
\* with a local and an operand below the argument it passes.  busy (param
\* i32): i32.const 4; local.set 0; i32.const 6; local.tee 0; call const7; drop
CallPool ==
    << Ins("GETLOCAL", None, 0, U32(0)),            \* KeepAt: keep
       Ins("I32CONST", None, 1, U32(3)),
       Ins("CALL", None, 1, U32(19)),
       Ins("DROP", None, 0, U32(0)),
       Ins("I32CONST", None, 1, U32(4)),            \* KeepAt + 4: busy
       Ins("SETLOCAL", None, 0, U32(0)),
       Ins("I32CONST", None, 1, U32(6)),
       Ins("TEELOCAL", None, 0, U32(0)),
       Ins("CALL", None, 1, U32(0)),
       Ins("DROP", None, 0, U32(0)) >>

\* The loaded test module's pool.  Bodies: 1 const7, 2 the block of trap,
\* 5 trap, 6..7 calltrap, 8 id, 9..10 callid, 11 ret7 (return inside a block),
\* 14 its function body; 16..22 nest (an empty block, then i32.const 7, in a
\* block with a result), 23..30 cond (br_if 0 out of a block carrying 7, or
\* drop and 5), 31..36 ifelse, 37..41 exit (a loop left by br_if 1), 42..43
\* rec (calls itself with its parameter), 44..45 calli (call_indirect on its
\* parameter); then the br_table functions.
Pool ==
    << 0,                                           \* 0: NULL
       Ins("I32CONST", None, 1, U32(7)),            \* 1: const7
       Ins("UNREACHABLE", None, 0, U32(0)),         \* 2: body of the block
       InsVec(2, 1), NullVec,                       \* 3, 4: branch0, branch1
       Ins("BLOCK", None, 0, U32(3)),               \* 5: trap
       Ins("CALL", None, 1, U32(1)),                \* 6: calltrap
       Ins("I32CONST", None, 1, U32(1)),            \* 7
       Ins("GETLOCAL", None, 0, U32(0)),            \* 8: id
       Ins("I32CONST", None, 1, U32(5)),            \* 9: callid
       Ins("CALL", None, 1, U32(3)),                \* 10
       Ins("I32CONST", None, 1, U32(7)),            \* 11: block of ret7
       Ins("RETURN", None, 0, U32(0)),              \* 12
       InsVec(11, 2), NullVec,                      \* 13, 14
       Ins("BLOCK", Some("I32"), 0, U32(13)),       \* 15: ret7
       NullVec, NullVec,                            \* 16, 17: the empty block
       Ins("BLOCK", None, 0, U32(16)),              \* 18: outer block of nest
       Ins("I32CONST", None, 1, U32(7)),            \* 19
       InsVec(18, 2), NullVec,                      \* 20, 21
       Ins("BLOCK", Some("I32"), 0, U32(20)),       \* 22: nest
       Ins("I32CONST", None, 1, U32(7)),            \* 23: block of cond
       Ins("GETLOCAL", None, 0, U32(0)),            \* 24
       Ins("BRIF", None, 1, U32(0)),                \* 25
       Ins("DROP", None, 0, U32(0)),                \* 26
       Ins("I32CONST", None, 1, U32(5)),            \* 27
       InsVec(23, 5), NullVec,                      \* 28, 29
       Ins("BLOCK", Some("I32"), 0, U32(28)),       \* 30: cond
       Ins("I32CONST", None, 1, U32(7)),            \* 31: then of ifelse
       Ins("I32CONST", None, 1, U32(5)),            \* 32: else of ifelse
       InsVec(31, 1), InsVec(32, 1),                \* 33, 34
       Ins("GETLOCAL", None, 0, U32(0)),            \* 35: ifelse
       Ins("IF", Some("I32"), 0, U32(33)),          \* 36
       Ins("GETLOCAL", None, 0, U32(0)),            \* 37: loop of exit
       Ins("BRIF", None, 1, U32(1)),                \* 38
       InsVec(37, 2), NullVec,                      \* 39, 40
       Ins("LOOP", None, 0, U32(39)),               \* 41: exit
       Ins("GETLOCAL", None, 0, U32(0)),            \* 42: rec
       Ins("CALL", None, 1, U32(13)),               \* 43
       Ins("GETLOCAL", None, 0, U32(0)),            \* 44: calli
       Ins("CALLINDIRECT", None, 0, U32(0)),        \* 45
       Ins("NOP", None, 0, U32(0)),                 \* 46: then of line
       InsVec(46, 1), NullVec,                      \* 47, 48: no else
       Ins("I32CONST", None, 1, U32(8)),            \* 49: line
       Ins("GETLOCAL", None, 0, U32(0)),            \* 50
       Ins("TEELOCAL", None, 0, U32(0)),            \* 51
       Ins("I32DIVU", None, 0, U32(0)),             \* 52
       Ins("SETGLOBAL", None, 0, U32(0)),           \* 53
       Ins("GETGLOBAL", None, 0, U32(0)),           \* 54
       Ins("IF", None, 0, U32(47)),                 \* 55
       Ins("I32CONST", None, 1, U32(0)),            \* 56
       Ins("I32LOAD", None, 0, U32(0)),             \* 57
       Ins("GETLOCAL", None, 0, U32(0)),            \* 58
       Ins("I32STORE", None, 0, U32(0)),            \* 59
       Ins("CURRENTMEMORY", None, 0, U32(0)),       \* 60
       Ins("GROWMEMORY", None, 0, U32(0)),          \* 61
       Ins("I32CONST", None, 1, U32(1)),            \* 62
       Ins("GETLOCAL", None, 0, U32(0)),            \* 63
       Ins("SELECT", None, 0, U32(0)),              \* 64
       Ins("I32CONST", None, 1, U32(1)),            \* 65
       Ins("I32SHL", None, 0, U32(0)),              \* 66
       Ins("NOP", None, 0, U32(0)),                 \* 67
       Ins("CALL", None, 1, U32(16)) >>             \* 68: under
       \o BrTablePool("brt") \o BrTablePool("brtempty") \o BrTablePool("brtwide")
       \o CallPool

PoolAt(i) == Pool[i + 1]

\* InsPool::ins_in_vec
InsInVec(vec, i) == PoolAt(vec.offset + i)

\* InsPool::branch0 / branch1
Branch0(ins) == PoolAt(ToInt(ins.payload))

Branch1(ins) == PoolAt(ToInt(ins.payload) + 1)

\* InsPool::operand
Operand(ins, i) == PoolAt(ToInt(ins.payload) + i)

(***************************************************************************)
(* The module's functions (instance.rs: WASMFunction, FunctionInstance).   *)
(* Functions[i + 1] is functions[i].                                       *)
(***************************************************************************)
WasmFn(params, result, locals, body) ==
    [kind |-> "wasm", params |-> params, result |-> result,
     locals |-> locals, body |-> body]

HostFn(params, result) ==
    [kind |-> "host", params |-> params, result |-> result,
     locals |-> 0, body |-> NullVec]

Functions ==
    << WasmFn(0, Some("I32"), 0, InsVec(1, 1)),     \* 0: const7
       WasmFn(0, None, 0, InsVec(5, 1)),            \* 1: trap
       WasmFn(0, Some("I32"), 0, InsVec(6, 2)),     \* 2: calltrap
       WasmFn(1, Some("I32"), 0, InsVec(8, 1)),     \* 3: id
       WasmFn(0, Some("I32"), 0, InsVec(9, 2)),     \* 4: callid
       WasmFn(0, Some("I32"), 0, InsVec(15, 1)),    \* 5: ret7
       WasmFn(1, None, 0, InsVec(BrTableAt.brt + 4, 1)),        \* 6: brt
       WasmFn(1, None, 0, InsVec(BrTableAt.brtempty + 4, 1)),   \* 7: brtempty
       WasmFn(1, None, 0, InsVec(BrTableAt.brtwide + 4, 1)),    \* 8: brtwide
       WasmFn(1, Some("I32"), 0, InsVec(22, 1)),    \* 9: nest
       WasmFn(1, Some("I32"), 0, InsVec(30, 1)),    \* 10: cond
       WasmFn(1, Some("I32"), 0, InsVec(35, 2)),    \* 11: ifelse
       WasmFn(1, None, 0, InsVec(41, 1)),           \* 12: exit
       WasmFn(1, None, 0, InsVec(42, 2)),           \* 13: rec
       WasmFn(1, Some("I32"), 0, InsVec(44, 2)),    \* 14: calli
       WasmFn(1, Some("I32"), 0, InsVec(49, 19)),   \* 15: line
       WasmFn(4, None, 0, InsVec(5, 1)),            \* 16: wide
       WasmFn(1, None, 0, InsVec(68, 1)),           \* 17: under
       WasmFn(1, Some("I32"), 0, InsVec(KeepAt, 4)),       \* 18: keep
       WasmFn(1, Some("I32"), 0, InsVec(KeepAt + 4, 6)) >> \* 19: busy

\* the export section: name -> function index
ExportSection ==
    [const7 |-> 0, trap |-> 1, calltrap |-> 2, id |-> 3, callid |-> 4, ret7 |-> 5]

\* WASMFunction::local_len
LocalLen(f) == f.locals

(***************************************************************************)
(* Packed descriptors (frame_data.rs, label_data.rs, offset.rs), kept as   *)
(* the records of their fields.                                            *)
(***************************************************************************)
\* FrameData::new
FrameData(label_size, local_size, stack_size, func_bits) ==
    [label_size |-> label_size, local_size |-> local_size,
     stack_size |-> stack_size, func_bits |-> func_bits]

\* LabelData::new
LabelData(stack_pc, label_pc, arity, is_loop) ==
    [stack_pc |-> stack_pc, label_pc |-> label_pc, arity |-> arity, is_loop |-> is_loop]

\* Offset::new
Offset(label_base, stack_base) == [label_base |-> label_base, stack_base |-> stack_base]

\* FunctionBits::is_table / fn_index (IS_TABLE_MASK 0x8000, FN_INDEX_MASK 0x7fff)
IsTable(bits) == bits >= HalfBase

FnIndex(bits) == bits % HalfBase

Zero64 == U64(0)

(***************************************************************************)
(* Table (table.rs): functions is a sequence of Option<FunctionInstance>,  *)
(* functions[i + 1] being entry i.                                         *)
(***************************************************************************)
\* the vector put_elements works on when it writes entry index: the old one,
\* or a copy of it in a vector of max(len * 2, index + 1) entries
TableGrown(functions, index) ==
    IF index >= Len(functions)
    THEN [j \in 1..(IF Len(functions) * 2 > index + 1
                    THEN Len(functions) * 2 ELSE index + 1) |->
            IF j <= Len(functions) THEN functions[j] ELSE None]
    ELSE functions

RECURSIVE PutElementsFrom(_, _, _, _)
PutElementsFrom(functions, off, fs, i) ==
    IF i >= Len(fs) THEN functions
    ELSE PutElementsFrom([TableGrown(functions, off + i) EXCEPT
                             ![off + i + 1] = Some(fs[i + 1])],
                         off, fs, i + 1)

\* Table::put_elements(off, functions)
PutElements(functions, off, fs) == PutElementsFrom(functions, off, fs, 0)

(***************************************************************************)
(* Instance (instance.rs).  The vectors are functions on 0..len-1.         *)
(***************************************************************************)
\* Instance::new before init(md): Instance::default() with the limits set and
\* the arrays allocated; maxPages is the memory's max_pages
NewInstance(maxFrames, maxStacks, maxLabels, maxPages) ==
    [count |-> 0,
     max_stacks |-> maxStacks, max_frames |-> maxFrames, max_labels |-> maxLabels,
     stack_data |-> [i \in 0..maxStacks - 1 |-> Zero64],
     frame_data |-> [i \in 0..maxFrames - 1 |-> FrameData(0, 0, 0, 0)],
     label_data |-> [i \in 0..maxLabels - 1 |-> LabelData(0, 0, FALSE, FALSE)],
     offsets |-> [i \in 0..maxFrames - 1 |-> Offset(0, 0)],
     labels |-> [i \in 0..maxLabels - 1 |-> NullVec],
     memory |-> WithMaxPages(MemDefault, maxPages),
     label_size |-> 0, stack_size |-> 0, local_size |-> 0, func_bits |-> 0,
     frame_body |-> NullVec, label_body |-> NullVec,
     stack_base |-> 0, label_base |-> 0,
     result_type |-> None,
     label_pc |-> 0, arity |-> FALSE, is_loop |-> FALSE, stack_pc |-> 0,
     table |-> <<>>,
     globals |-> <<>>, global_types |-> <<>>,
     exports |-> <<>>]

\* Instance::push in a build b: stack_size += 1 is on a u16 (65535 + 1 panics
\* in a debug build and wraps in a release build), after the cell is written
PushCell(s, value, b) ==
    IF s.stack_base + s.local_size + s.stack_size >= s.max_stacks THEN Err(s)
    ELSE IF s.stack_size = Base - 1 /\ b = "debug"
    THEN Panic([s EXCEPT !.stack_data[s.stack_base + s.local_size + s.stack_size] = value])
    ELSE Ok([s EXCEPT !.stack_data[s.stack_base + s.local_size + s.stack_size] = value,
                      !.stack_size = (@ + 1) % Base], <<>>)

\* Instance::push
Push(s, value) == PushCell(s, value, build)

\* the index of the top cell of the current frame's operand stack
TopIndex(s) == s.stack_base + s.local_size + s.stack_size - 1

\* Instance::peek
Peek(s) ==
    IF s.stack_size = 0 THEN Err(s)
    ELSE IF TopIndex(s) >= s.max_stacks THEN Panic(s)
    ELSE Ok(s, s.stack_data[TopIndex(s)])

\* Instance::pop
Pop(s) ==
    IF s.stack_size = 0 THEN Err(s)
    ELSE IF TopIndex(s) >= s.max_stacks THEN Panic(s)
    ELSE Ok([s EXCEPT !.stack_size = @ - 1], s.stack_data[TopIndex(s)])

\* Instance::drop_unchecked: stack_size -= 1 on a u16 (0 - 1 panics in a debug
\* build and wraps in a release build)
DropUnchecked(s, b) ==
    IF s.stack_size = 0
    THEN IF b = "debug" THEN Panic(s) ELSE Ok([s EXCEPT !.stack_size = Base - 1], <<>>)
    ELSE Ok([s EXCEPT !.stack_size = @ - 1], <<>>)

\* Instance::clear_frame
ClearFrame(s) ==
    [s EXCEPT !.label_size = 0, !.stack_size = 0, !.func_bits = 0, !.local_size = 0]

\* Instance::save_frame (frame_data[count - 1], offsets[count - 1])
SaveFrame(s) ==
    IF s.count - 1 >= s.max_frames THEN Panic(s)
    ELSE Ok([s EXCEPT
              !.frame_data[s.count - 1] = FrameData(s.label_size, s.local_size,
                                                    s.stack_size, s.func_bits),
              !.offsets[s.count - 1] = Offset(s.label_base, s.stack_base)], <<>>)

\* Instance::save_label
SaveLabel(s) ==
    IF s.label_base + s.label_size - 1 >= s.max_labels THEN Panic(s)
    ELSE Ok([s EXCEPT !.label_data[s.label_base + s.label_size - 1] =
                LabelData(s.stack_pc, s.label_pc, s.arity, s.is_loop)], <<>>)

\* Instance::load_label, data being label_data[p]
LoadLabelData(s, data) ==
    Ok([s EXCEPT !.label_pc = data.label_pc, !.stack_pc = data.stack_pc,
                 !.arity = data.arity, !.is_loop = data.is_loop], <<>>)

LoadLabel(s) ==
    IF s.label_base + s.label_size - 1 >= s.max_labels THEN Panic(s)
    ELSE LoadLabelData(s, s.label_data[s.label_base + s.label_size - 1])

\* push_fr!, from its save_label on (r is the outcome of the save_frame), and
\* from the new bases on
PushFrBases(r) ==
    IF r.k # "ok" THEN r
    ELSE Ok(ClearFrame([r.s EXCEPT
              !.stack_base = IF r.s.count # 0
                             THEN r.s.stack_base + r.s.local_size + r.s.stack_size
                             ELSE 0,
              !.label_base = IF r.s.count # 0
                             THEN r.s.label_base + r.s.label_size ELSE 0]), <<>>)

PushFrLabel(r) ==
    PushFrBases(IF r.k = "ok" /\ r.s.label_size # 0 THEN SaveLabel(r.s) ELSE r)

\* push_fr!
PushFr(s) ==
    IF s.count = s.max_frames THEN Err(s)
    ELSE PushFrLabel(IF s.count # 0 THEN SaveFrame(s) ELSE Ok(s, <<>>))

\* VecUtils::fill_from: self[src..src + len].fill(elem); the slice panics when
\* it leaves the vector of length n
FillFromPanics(n, src, len) == src + len > n

FillFrom(vec, src, len, elem) ==
    [i \in DOMAIN vec |-> IF src <= i /\ i < src + len THEN elem ELSE vec[i]]

\* VecUtils::self_copy: for i in 0..len { self[src + i] = self[dst + i] }
SelfCopyPanics(n, src, dst, len) == len > 0 /\ (src + len > n \/ dst + len > n)

RECURSIVE SelfCopyFrom(_, _, _, _, _)
SelfCopyFrom(vec, src, dst, len, i) ==
    IF i >= len THEN vec
    ELSE SelfCopyFrom([vec EXCEPT ![src + i] = vec[dst + i]], src, dst, len, i + 1)

SelfCopy(vec, src, dst, len) == SelfCopyFrom(vec, src, dst, len, 0)

\* Instance::push_args from its fill_from on: t is the instance with the
\* caller's saved stack_size lowered, n the vector's length, top the caller's
\* stack top
PushArgsCopy(t, n, top, params) ==
    IF FillFromPanics(n, t.stack_base, t.local_size) THEN Panic(t)
    ELSE IF SelfCopyPanics(n, top - params, t.stack_base, params)
    THEN Panic([t EXCEPT !.stack_data = FillFrom(@, t.stack_base, t.local_size, Zero64)])
    ELSE Ok([t EXCEPT !.stack_data =
                SelfCopy(FillFrom(@, t.stack_base, t.local_size, Zero64),
                         top - params, t.stack_base, params)], <<>>)

\* Instance::push_args with frame = count - 2, data = frame_data[frame] and
\* off = offsets[frame]
PushArgsFrom(s, params, frame, data, off) ==
    IF data.stack_size < params THEN Err(s)
    ELSE PushArgsCopy([s EXCEPT !.frame_data[frame] =
                          FrameData(data.label_size, data.local_size,
                                    data.stack_size - params, data.func_bits)],
                      s.max_stacks,
                      off.stack_base + data.local_size + data.stack_size, params)

\* Instance::push_args: pop n params from stack of prev frame into current frame
PushArgs(s, params) ==
    IF s.count - 2 < 0 \/ s.count - 2 >= s.max_frames THEN Panic(s)
    ELSE PushArgsFrom(s, params, s.count - 2, s.frame_data[s.count - 2],
                      s.offsets[s.count - 2])

\* args.copy_from_slice into stack_data[base..base + Len(args)]
CopyArgs(vec, base, args) ==
    [i \in DOMAIN vec |->
        IF base <= i /\ i < base + Len(args) THEN args[i - base + 1] ELSE vec[i]]

\* Instance::push_frame, the match on args; t is the instance with the new
\* frame's registers set
PushFrameArgs(t, func, args) ==
    IF args = None
    THEN IF t.count - 1 = 0 THEN Err(t) ELSE PushArgs(t, func.params)
    ELSE IF FillFromPanics(t.max_stacks, t.stack_base, t.local_size) THEN Panic(t)
    ELSE IF t.stack_base + Len(args[1]) > t.max_stacks
    THEN Panic([t EXCEPT !.stack_data = FillFrom(@, t.stack_base, t.local_size, Zero64)])
    ELSE Ok([t EXCEPT !.stack_data =
                CopyArgs(FillFrom(@, t.stack_base, t.local_size, Zero64),
                         t.stack_base, args[1])], <<>>)

\* Instance::push_frame after push_fr!, whose outcome is r
PushFrameSet(r, func, args) ==
    IF r.k # "ok" THEN r
    ELSE IF LocalLen(func) + func.params > Base - 1 THEN Err(r.s)
    ELSE PushFrameArgs([r.s EXCEPT !.result_type = func.result,
                                   !.local_size = LocalLen(func) + func.params,
                                   !.frame_body = func.body,
                                   !.count = @ + 1], func, args)

\* Instance::push_frame(func, args); args is None or Some(sequence of cells)
PushFrame(s, func, args) == PushFrameSet(PushFr(s), func, args)

\* Instance::push_expr after push_fr!
PushExprSet(r, expr, result_type) ==
    IF r.k # "ok" THEN r
    ELSE Ok([r.s EXCEPT !.result_type = result_type, !.frame_body = expr,
                        !.count = @ + 1], <<>>)

\* Instance::push_expr
PushExpr(s, expr, result_type) == PushExprSet(PushFr(s), expr, result_type)

\* Instance::get_func_by_bits: the Option looked up, then the match on it
FuncOption(s, bits) ==
    IF IsTable(bits)
    THEN IF FnIndex(bits) < Len(s.table) THEN s.table[FnIndex(bits) + 1] ELSE None
    ELSE IF FnIndex(bits) < Len(Functions) THEN Some(Functions[FnIndex(bits) + 1])
    ELSE None

FuncOfOption(s, o) ==
    IF o = None THEN Err(s)
    ELSE IF o[1].kind # "wasm" THEN Err(s)
    ELSE Ok(s, o[1])

GetFuncByBits(s, bits) == FuncOfOption(s, FuncOption(s, bits))

\* a set_local that forgets the frame's stack base
SetLocalUnbased(s, index, value) ==
    IF index >= s.local_size THEN Err(s)
    ELSE Ok([s EXCEPT !.stack_data[index] = value], <<>>)

\* Instance::set_local / get_local
SetLocal(s, index, value) ==
    IF index >= s.local_size THEN Err(s)
    ELSE IF s.stack_base + index >= s.max_stacks THEN Panic(s)
    ELSE Ok([s EXCEPT !.stack_data[s.stack_base + index] = value], <<>>)

GetLocal(s, index) ==
    IF index >= s.local_size THEN Err(s)
    ELSE IF s.stack_base + index >= s.max_stacks THEN Panic(s)
    ELSE Ok(s, s.stack_data[s.stack_base + index])

\* Instance::reset_body, f being the outcome of get_func_by_bits
ResetBodyTo(s, f) ==
    IF f.k # "ok" THEN f
    ELSE Ok([s EXCEPT !.frame_body = f.v.body, !.result_type = f.v.result], <<>>)

ResetBody(s, func_bits) == ResetBodyTo(s, GetFuncByBits(s, func_bits))

\* Instance::pop_frame: the registers restored from prev = frame_data[count - 1]
\* and prev_off = offsets[count - 1]; then, r being the outcome of reset_body,
\* the load_label
RestoreFrame(t, prev, prev_off) ==
    [t EXCEPT !.stack_size = prev.stack_size, !.local_size = prev.local_size,
              !.label_size = prev.label_size, !.func_bits = prev.func_bits,
              !.stack_base = prev_off.stack_base, !.label_base = prev_off.label_base]

PopFrameLabel(r) ==
    IF r.k # "ok" THEN r
    ELSE IF r.s.label_size # 0 THEN LoadLabel(r.s)
    ELSE r

PopFrameBody(u) == PopFrameLabel(ResetBody(u, u.func_bits))

\* Instance::pop_frame.  count -= 1 on a u16: with count = 0 a debug build
\* panics, and a release build wraps to 65535 and panics on frame_data[65534].
PopFrame(s) ==
    IF s.count = 0 THEN Panic(s)
    ELSE IF s.count = 1 THEN Ok([s EXCEPT !.count = 0], <<>>)
    ELSE PopFrameBody(RestoreFrame([s EXCEPT !.count = @ - 1],
                                   s.frame_data[s.count - 2], s.offsets[s.count - 2]))

\* Instance::ret with a result type: p is the outcome of the pop, then r that of
\* pop_frame and res the result
RetValue(r, res) == IF r.k # "ok" THEN r ELSE Ok(r.s, Some(res))

RetPopped(p, t) ==
    IF p.k # "ok" THEN p
    ELSE RetValue(PopFrame(p.s), IF t \in {"F32", "I32"} THEN ZeroExt(AsU32(p.v)) ELSE p.v)

RetNone(r) == IF r.k # "ok" THEN r ELSE Ok(r.s, None)

\* Instance::ret: Ok(None) or Ok(Some(res))
Ret(s) ==
    IF s.result_type = None THEN RetNone(PopFrame(s))
    ELSE RetPopped(Pop(s), s.result_type[1])

\* Instance::push_label after its save_label, whose outcome is r
PushLabelSet(r, arity, body, is_loop) ==
    IF r.k # "ok" THEN r
    ELSE IF r.s.label_base + r.s.label_size = r.s.max_labels
    THEN Err([r.s EXCEPT !.arity = arity, !.is_loop = is_loop,
                         !.stack_pc = r.s.stack_size,
                         !.label_body = body, !.label_pc = 0])
    ELSE Ok([r.s EXCEPT !.arity = arity, !.is_loop = is_loop,
                        !.stack_pc = r.s.stack_size,
                        !.label_body = body, !.label_pc = 0,
                        !.label_size = @ + 1], <<>>)

\* Instance::push_label
PushLabel(s, arity, body, is_loop) ==
    PushLabelSet(IF s.label_size # 0 THEN SaveLabel(s) ELSE Ok(s, <<>>),
                 arity, body, is_loop)

\* Instance::pop_label
PopLabel(s) ==
    IF s.label_size = 0 THEN Err(s)
    ELSE IF s.label_size - 1 # 0 THEN LoadLabel([s EXCEPT !.label_size = @ - 1])
    ELSE Ok([s EXCEPT !.label_size = @ - 1], <<>>)

\* Instance::branch from the label overflow check on, ps being the outcome of
\* the push of the carried value
BranchEnter(ps) ==
    IF ps.k # "ok" THEN ps
    ELSE IF ps.s.label_base + ps.s.label_size = ps.s.max_labels THEN Err(ps.s)
    ELSE Ok([ps.s EXCEPT !.label_size = @ + 1,
                         !.label_pc = IF ps.s.is_loop THEN 0 ELSE ps.s.label_body.size],
            <<>>)

\* Instance::branch from `let val = ...` on: pv is the outcome of the pop of
\* the carried value (of no pop when the label has no arity)
BranchCarry(pv, arity, stack_pc) ==
    IF pv.k # "ok" THEN pv
    ELSE BranchEnter(IF arity
                     THEN Push([pv.s EXCEPT !.stack_size = stack_pc], pv.v)
                     ELSE Ok([pv.s EXCEPT !.stack_size = stack_pc], <<>>))

BranchValue(t) ==
    BranchCarry(IF t.arity THEN Pop(t) ELSE Ok(t, Zero64), t.arity, t.stack_pc)

\* Instance::branch from `let p = ...` on: t has label_size = idx
BranchTarget(t, l, p) ==
    IF l = 0 THEN BranchValue(t)
    ELSE IF p >= t.max_labels THEN Panic(t)
    ELSE BranchValue([t EXCEPT !.is_loop = t.label_data[p].is_loop,
                               !.label_body = t.labels[p],
                               !.arity = t.label_data[p].arity,
                               !.stack_pc = t.label_data[p].stack_pc])

\* Instance::branch(l)
Branch(s, l) ==
    IF s.label_size = 0 \/ s.label_size - 1 < l THEN Err(s)
    ELSE BranchTarget([s EXCEPT !.label_size = s.label_size - 1 - l], l,
                      s.label_base + s.label_size - 1 - l)

\* Instance::push_frame(FuncBits, None), the overload the dispatcher calls.  It
\* is the push_frame of stack.rs: the function is resolved from its bits,
\* which become the frame's func_bits.  f is the outcome of get_func_by_bits.
PushFrameResolved(t, f) ==
    IF f.k # "ok" THEN Err(t) ELSE PushFrameSet(Ok(t, <<>>), f.v, None)

PushFrameFunc(r, bits) ==
    IF r.k # "ok" THEN r
    ELSE PushFrameResolved([r.s EXCEPT !.func_bits = bits], GetFuncByBits(r.s, bits))

PushFrameBits(s, bits) == PushFrameFunc(PushFr(s), bits)

\* FuncBits::normal(n as u16) and FuncBits::table(index as u16)
FuncBitsNormal(n) == n % Base

FuncBitsTable(n) == HalfBase + (n % HalfBase)

(***************************************************************************)
(* The dispatcher (executable.rs).                                         *)
(***************************************************************************)
\* Instance::top_2: the top cell by value and the index of the cell below it
\* (the &mut the macros write through); an error when fewer than two cells
TopTwo(s) ==
    IF s.stack_size < 2 THEN Err(s)
    ELSE IF TopIndex(s) >= s.max_stacks THEN Panic(s)
    ELSE Ok(s, [v2 |-> s.stack_data[TopIndex(s)],
                v1 |-> s.stack_data[TopIndex(s) - 1], at |-> TopIndex(s) - 1])

\* Instance::top: the index of the top cell
Top(s) ==
    IF s.stack_size = 0 THEN Err(s)
    ELSE IF TopIndex(s) >= s.max_stacks THEN Panic(s)
    ELSE Ok(s, [v |-> s.stack_data[TopIndex(s)], at |-> TopIndex(s)])

\* `x as u64` of an i32 held as a word: sign extension
SignExtWord(w) ==
    IF IsNegLimbs(w) THEN <<w[1], w[2], Base - 1, Base - 1>> ELSE ZeroExt(w)

\* Div::div and Rem::rem panic on a zero divisor and, on signed integers, on
\* MIN / -1 ("attempt to divide with overflow", "attempt to calculate the
\* remainder with overflow"), in every build
DivPanicsU(a, c) == IsZeroLimbs(c)

DivPanicsS(a, c) ==
    IsZeroLimbs(c) \/ (a = MinLimbs(Len(a)) /\ c = OnesLimbs(Len(c)))

\* The value (*v1 as t).op(v2 as t) as u64 of the bin_cast! arms of division
\* and remainder on i32 / u32 words a and c, or None when the Rust operator
\* panics
BinValue32(op, a, c) ==
    CASE op = "I32DIVS" -> IF DivPanicsS(a, c) THEN None
                           ELSE Some(SignExtWord(DivS(a, c)))
      [] op = "I32DIVU" -> IF DivPanicsU(a, c) THEN None ELSE Some(ZeroExt(DivU(a, c)))
      [] op = "I32REMS" -> IF DivPanicsS(a, c) THEN None
                           ELSE Some(SignExtWord(RemS(a, c)))
      [] op = "I32REMU" -> IF DivPanicsU(a, c) THEN None ELSE Some(ZeroExt(RemU(a, c)))

\* the same for the bin_cast! arms on i64 and the bin! arms
BinValue64(op, v1, v2) ==
    CASE op = "I64DIVS" -> IF DivPanicsS(v1, v2) THEN None ELSE Some(DivS(v1, v2))
      [] op = "I64DIVU" -> IF DivPanicsU(v1, v2) THEN None ELSE Some(DivU(v1, v2))
      [] op = "I64REMS" -> IF DivPanicsS(v1, v2) THEN None ELSE Some(RemS(v1, v2))
      [] op = "I64REMU" -> IF DivPanicsU(v1, v2) THEN None ELSE Some(RemU(v1, v2))

BinOps32 == {"I32DIVS", "I32DIVU", "I32REMS", "I32REMU"}

BinOps64 == {"I64DIVS", "I64DIVU", "I64REMS", "I64REMU"}

BinOps == BinOps32 \cup BinOps64

\* BinValue with the operands taken in the other order
BinValueSwapped(op, v1, v2) ==
    IF op \in BinOps32 THEN BinValue32(op, AsU32(v2), AsU32(v1))
    ELSE BinValue64(op, v2, v1)

BinValue(op, v1, v2) ==
    IF op \in BinOps32 THEN BinValue32(op, AsU32(v1), AsU32(v2))
    ELSE BinValue64(op, v1, v2)

\* bin_cast! / bin! after top_2, whose outcome is t: *v1 = r; drop_unchecked()
BinWrite(s, at, r, b) ==
    IF r = None THEN Panic(s)
    ELSE DropUnchecked([s EXCEPT !.stack_data[at] = r[1]], b)

BinTop(t, op, b) ==
    IF t.k # "ok" THEN t
    ELSE BinWrite(t.s, t.v.at, BinValue(op, t.v.v1, t.v.v2), b)

\* bin_cast! / bin!: let (v2, v1) = top_2()?; *v1 = ...; drop_unchecked()
BinCast(s, op, b) == BinTop(TopTwo(s), op, b)

\* Limb i of a word, limbs below the word being 0 and limbs above it ext
LimbAt(a, i, ext) == IF i < 1 THEN 0 ELSE IF i > Len(a) THEN ext ELSE a[i]

\* a word shifted left by k bits: k \div 16 whole limbs and k % 16 bits
ShlLimbs(a, k) ==
    [j \in 1..Len(a) |->
        (LimbAt(a, j - (k \div 16), 0) % Pow2(16 - (k % 16))) * Pow2(k % 16)
            + LimbAt(a, j - (k \div 16) - 1, 0) \div Pow2(16 - (k % 16))]

\* a word shifted right by k bits, the bit fill coming in at the top (0, or
\* the sign bit of an arithmetic shift)
ShrLimbs(a, k, fill) ==
    [j \in 1..Len(a) |->
        LimbAt(a, j + (k \div 16), fill * (Base - 1)) \div Pow2(k % 16)
            + (LimbAt(a, j + (k \div 16) + 1, fill * (Base - 1)) % Pow2(k % 16))
                  * Pow2(16 - (k % 16))]

SignBit(a) == IF IsNegLimbs(a) THEN 1 ELSE 0

\* Shl::shl / Shr::shr with a count c that is not below the width in bits:
\* "attempt to shift left with overflow" in a debug build; a release build
\* shifts by the count's low bits
ShiftOverflows(c, bits) == ~IsZeroLimbs(Tail(c)) \/ c[1] >= bits

\* The value (*v1 as t).op(v2 as t) as u64 of the shift arms on 32-bit words
\* a and c, or None when the Rust operator panics: I32SHRS is
\* bin_cast_2!(i32, u32, shr), whose `as u64` extends the sign
ShiftValue32(op, a, c, b) ==
    IF ShiftOverflows(c, 32) /\ b = "debug" THEN None
    ELSE CASE op = "I32SHL" -> Some(ZeroExt(ShlLimbs(a, c[1] % 32)))
           [] op = "I32SHRU" -> Some(ZeroExt(ShrLimbs(a, c[1] % 32, 0)))
           [] op = "I32SHRS" ->
                Some(SignExtWord(ShrLimbs(a, c[1] % 32, SignBit(a))))

\* the same for the bin! arms I64SHL and I64SHRU and for I64SHRS
ShiftValue64(op, v1, v2, b) ==
    IF ShiftOverflows(v2, 64) /\ b = "debug" THEN None
    ELSE CASE op = "I64SHL" -> Some(ShlLimbs(v1, v2[1] % 64))
           [] op = "I64SHRU" -> Some(ShrLimbs(v1, v2[1] % 64, 0))
           [] op = "I64SHRS" -> Some(ShrLimbs(v1, v2[1] % 64, SignBit(v1)))

ShiftOps32 == {"I32SHL", "I32SHRU", "I32SHRS"}

ShiftOps64 == {"I64SHL", "I64SHRU", "I64SHRS"}

ShiftOps == ShiftOps32 \cup ShiftOps64

ShiftValue(op, v1, v2, b) ==
    IF op \in ShiftOps32 THEN ShiftValue32(op, AsU32(v1), AsU32(v2), b)
    ELSE ShiftValue64(op, v1, v2, b)

ShiftTop(t, op, b) ==
    IF t.k # "ok" THEN t
    ELSE BinWrite(t.s, t.v.at, ShiftValue(op, t.v.v1, t.v.v2, b), b)

\* the shift arms: let (v2, v1) = top_2()?; *v1 = ...; drop_unchecked()
ShiftCast(s, op, b) == ShiftTop(TopTwo(s), op, b)

\* mem_off! after its pop, whose outcome is p, the sum being pop + payload on
\* five limbs: on overflow of the u64 a debug build panics and a release
\* build goes on with the wrapped sum
MemOffSum(p, sum, b) ==
    IF sum[5] # 0 /\ b = "debug" THEN Panic(p.s)
    ELSE IF GtI32Max(SubSeq(sum, 1, 4)) THEN Err(p.s)
    ELSE Ok(p.s, ToInt(SubSeq(sum, 1, 4)))

MemOffPopped(p, ins, b) ==
    IF p.k # "ok" THEN p
    ELSE MemOffSum(p, AddLimbs(p.v, ZeroExt(ins.payload), 0), b)

\* mem_off!: let l = pop()? + payload as u64; Err when l > i32::MAX; l as u32
MemOff(s, ins, b) == MemOffPopped(Pop(s), ins, b)

\* the load arms: bytes read, and the cast chain of the loaded value
\* ("u": as u64; "s32": as iN as i32 as u32 as u64; "s64": as iN as i64 as u64)
LoadBytes(op) ==
    CASE op \in {"I32LOAD", "I64LOAD32U", "F32LOAD", "I64LOAD32S"} -> 4
      [] op \in {"I64LOAD", "F64LOAD"} -> 8
      [] op \in {"I32LOAD8S", "I64LOAD8S", "I32LOAD8U", "I64LOAD8U"} -> 1
      [] op \in {"I32LOAD16S", "I64LOAD16S", "I32LOAD16U", "I64LOAD16U"} -> 2

LoadExt(op) ==
    CASE op \in {"I32LOAD8S", "I32LOAD16S"} -> "s32"
      [] op \in {"I64LOAD8S", "I64LOAD16S", "I64LOAD32S"} -> "s64"
      [] OTHER -> "u"

LoadOps ==
    {"I32LOAD", "I64LOAD32U", "F32LOAD", "I64LOAD32S", "I64LOAD", "F64LOAD",
     "I32LOAD8S", "I64LOAD8S", "I32LOAD8U", "I64LOAD8U",
     "I32LOAD16S", "I64LOAD16S", "I32LOAD16U", "I64LOAD16U"}

\* whether a loaded value raw (one byte, or the limbs of 2, 4 or 8 bytes) is
\* negative as iN, and its cell after the casts
RawNeg(raw, n) == IF n = 1 THEN raw[1] >= 128 ELSE raw[Len(raw)] >= HalfBase

ExtendSigned(raw, n, upto) ==
    [i \in 1..4 |-> IF i <= Len(raw)
                    THEN IF n = 1 THEN raw[i] + (Base - 256) ELSE raw[i]
                    ELSE IF i <= upto THEN Base - 1 ELSE 0]

Extend(raw, n, ext) ==
    IF ext # "u" /\ RawNeg(raw, n)
    THEN ExtendSigned(raw, n, IF ext = "s32" THEN 2 ELSE 4)
    ELSE [i \in 1..4 |-> IF i <= Len(raw) THEN raw[i] ELSE 0]

\* a load arm after mem_off!, whose outcome is off, and after the memory's
\* load_uN, whose outcome is r
LoadPush(s, r, n, ext) ==
    IF r.k # "ok" THEN Err(s) ELSE Push(s, Extend(r.v, n, ext))

LoadAt(off, n, ext) ==
    IF off.k # "ok" THEN off
    ELSE LoadPush(off.s,
                  IF n = 1 THEN MemLoadU8(off.s.memory, off.v)
                  ELSE MemLoadN(off.s.memory, off.v, n),
                  n, ext)

Load(s, ins, b) == LoadAt(MemOff(s, ins, b), LoadBytes(ins.op), LoadExt(ins.op))

\* the store arms: let v = pop()? as uN; let off = mem_off!; store_uN(off, v)?
StoreBytes(op) ==
    CASE op \in {"I32STORE8", "I64STORE8"} -> 1
      [] op \in {"I32STORE16", "I64STORE16"} -> 2
      [] op \in {"I32STORE", "I64STORE32", "F32STORE"} -> 4
      [] op \in {"I64STORE", "F64STORE"} -> 8

StoreOps ==
    {"I32STORE8", "I64STORE8", "I32STORE16", "I64STORE16",
     "I32STORE", "I64STORE32", "F32STORE", "I64STORE", "F64STORE"}

StoreDone(s, r) ==
    IF r.k # "ok" THEN Err(s) ELSE Ok([s EXCEPT !.memory = r.s], <<>>)

StoreAt(off, bs) ==
    IF off.k # "ok" THEN off
    ELSE StoreDone(off.s, MemStoreN(off.s.memory, off.v, bs))

StorePopped(v, ins, b) ==
    IF v.k # "ok" THEN v
    ELSE StoreAt(MemOff(v.s, ins, b), SubSeq(EncLe(v.v), 1, StoreBytes(ins.op)))

Store(s, ins, b) == StorePopped(Pop(s), ins, b)

\* GROWMEMORY: let n = pop()?; grow(n as u32)?; push(grow_result as u64)?
GrowPush(s, g) ==
    IF g.k = "panic" THEN Panic(s)
    ELSE IF g.k = "err" THEN Err(s)
    ELSE Push([s EXCEPT !.memory = g.s], ZeroExt(g.v))

GrowPopped(n, b) ==
    IF n.k # "ok" THEN n ELSE GrowPush(n.s, MemGrow(n.s.memory, AsU32(n.v), b))

GrowMemory(s, b) == GrowPopped(Pop(s), b)

\* a result whose value is dropped
Unit(r) == IF r.k = "ok" THEN Ok(r.s, <<>>) ELSE r

\* the outcome of the CALL arms once the callee's frame is pushed: the nested
\* self.run() is to be entered, arity is what the caller does with its result
Call(s, arity) == [k |-> "call", s |-> s, v |-> arity]

\* an if that enters its else branch although there is none
IfEntered(c, ins) ==
    IF c.k # "ok" THEN c
    ELSE IF ~IsZeroLimbs(c.v) THEN PushLabel(c.s, ins.bt # None, Branch0(ins), FALSE)
    ELSE PushLabel(c.s, ins.bt # None, Branch1(ins), FALSE)

\* IF, c being the outcome of the pop of the condition
IfPopped(c, ins) ==
    IF c.k # "ok" THEN c
    ELSE IF ~IsZeroLimbs(c.v) THEN PushLabel(c.s, ins.bt # None, Branch0(ins), FALSE)
    ELSE IF ~IsNullVec(Branch1(ins))
    THEN PushLabel(c.s, ins.bt # None, Branch1(ins), FALSE)
    ELSE Ok(c.s, <<>>)

\* BRIF, c being the outcome of the pop of the condition
BrIfPopped(c, ins) ==
    IF c.k # "ok" THEN c
    ELSE IF ~IsZeroLimbs(c.v) THEN Branch(c.s, ToInt(ins.payload))
    ELSE Ok(c.s, <<>>)

\* BRTABLE after the operand n is read: drop_unchecked(); branch(n as u32)?
BrTableJump(d, n) == IF d.k # "ok" THEN d ELSE Branch(d.s, ToInt(AsU32(n)))

\* a br_table that branches with its index still on the operand stack
BrTableKept(s, i, ins, b) ==
    IF i.k # "ok" THEN i
    ELSE IF ins.osz = 0 THEN Err(s)
    ELSE BrTableJump(Ok(s, <<>>),
                     IF GtLimbs(U32(ins.osz - 1), AsU32(i.v))
                     THEN Operand(ins, ToInt(AsU32(i.v)))
                     ELSE Operand(ins, ins.osz - 1))

\* BRTABLE, i being the outcome of the peek
BrTablePeeked(s, i, ins, b) ==
    IF i.k # "ok" THEN i
    ELSE IF ins.osz = 0 THEN Err(s)
    ELSE BrTableJump(DropUnchecked(s, b),
                     IF GtLimbs(U32(ins.osz - 1), AsU32(i.v))
                     THEN Operand(ins, ToInt(AsU32(i.v)))
                     ELSE Operand(ins, ins.osz - 1))

\* CALL / CALLINDIRECT, r being the outcome of push_frame
CallPushed(r) == IF r.k # "ok" THEN r ELSE Call(r.s, r.s.result_type # None)

CallIndirectPopped(index) ==
    IF index.k # "ok" THEN index
    ELSE CallPushed(PushFrameBits(index.s, FuncBitsTable(index.v[1])))

\* SELECT, after its three pops
SelectPopped1(c, v2, v1) ==
    IF v1.k # "ok" THEN v1
    ELSE Push(v1.s, IF ~IsZeroLimbs(c.v) THEN v1.v ELSE v2.v)

SelectPopped2(c, v2) == IF v2.k # "ok" THEN v2 ELSE SelectPopped1(c, v2, Pop(v2.s))

SelectPopped(c) == IF c.k # "ok" THEN c ELSE SelectPopped2(c, Pop(c.s))

\* GETLOCAL, loc being the outcome of get_local
GetLocalPush(s, loc) == IF loc.k # "ok" THEN loc ELSE Push(s, loc.v)

\* SETLOCAL, v being the outcome of the pop
SetLocalPopped(v, ins) ==
    IF v.k # "ok" THEN v ELSE SetLocal(v.s, ToInt(ins.payload), v.v)

\* TEELOCAL: pop, push, push, pop, set_local
TeePushed2(p, v, ins) == IF p.k # "ok" THEN p ELSE SetLocalPopped(Pop(p.s), ins)

TeePushed1(p, v, ins) == IF p.k # "ok" THEN p ELSE TeePushed2(Push(p.s, v), v, ins)

TeePopped(v, ins) == IF v.k # "ok" THEN v ELSE TeePushed1(Push(v.s, v.v), v.v, ins)

\* get_or_err!(v, payload as usize, ..) finds an entry: payload < v.len()
HasEntry(v, payload) == GtLimbs(U32(Len(v)), payload)

\* GETGLOBAL
GetGlobal(s, payload) ==
    IF ~HasEntry(s.globals, payload) THEN Err(s)
    ELSE Push(s, s.globals[ToInt(payload) + 1])

\* SETGLOBAL, v being the outcome of the pop
SetGlobalPopped(v, payload) ==
    IF v.k # "ok" THEN v
    ELSE IF ~HasEntry(v.s.globals, payload) THEN Panic(v.s)
    ELSE Ok([v.s EXCEPT !.globals[ToInt(payload) + 1] = v.v], <<>>)

\* SETGLOBAL without its test of is_mutable
SetGlobalUnchecked(s, payload) ==
    IF ~HasEntry(s.global_types, payload) THEN Err(s)
    ELSE SetGlobalPopped(Pop(s), payload)

\* SETGLOBAL
SetGlobal(s, payload) ==
    IF ~HasEntry(s.global_types, payload) THEN Err(s)
    ELSE IF ~s.global_types[ToInt(payload) + 1].mutable THEN Err(s)
    ELSE SetGlobalPopped(Pop(s), payload)

\* Runnable::invoke(ins) in build b
Invoke(s, ins, b) ==
    CASE ins.op = "NOP" -> Ok(s, <<>>)
      [] ins.op = "UNREACHABLE" -> Err(s)
      [] ins.op = "BLOCK" -> PushLabel(s, ins.bt # None, Branch0(ins), FALSE)
      [] ins.op = "LOOP" -> PushLabel(s, FALSE, Branch0(ins), TRUE)
      [] ins.op = "IF" -> IfPopped(Pop(s), ins)
      [] ins.op = "BR" -> Branch(s, ToInt(ins.payload))
      [] ins.op = "BRIF" -> BrIfPopped(Pop(s), ins)
      [] ins.op = "BRTABLE" -> BrTablePeeked(s, Peek(s), ins, b)
      [] ins.op = "DROP" -> Unit(Pop(s))
      [] ins.op = "CALL" ->
            CallPushed(PushFrameBits(s, FuncBitsNormal(ToInt(ins.payload))))
      [] ins.op = "CALLINDIRECT" -> CallIndirectPopped(Pop(s))
      [] ins.op = "SELECT" -> SelectPopped(Pop(s))
      [] ins.op = "GETLOCAL" -> GetLocalPush(s, GetLocal(s, ToInt(ins.payload)))
      [] ins.op = "SETLOCAL" -> SetLocalPopped(Pop(s), ins)
      [] ins.op = "TEELOCAL" -> TeePopped(Pop(s), ins)
      [] ins.op = "GETGLOBAL" -> GetGlobal(s, ins.payload)
      [] ins.op = "SETGLOBAL" -> SetGlobal(s, ins.payload)
      [] ins.op \in LoadOps -> Load(s, ins, b)
      [] ins.op \in StoreOps -> Store(s, ins, b)
      [] ins.op = "CURRENTMEMORY" -> Push(s, ZeroExt(U32(s.memory.pages)))
      [] ins.op = "GROWMEMORY" -> GrowMemory(s, b)
      [] ins.op \in {"I32CONST", "F32CONST"} -> Push(s, ZeroExt(ins.payload))
      [] ins.op \in {"I64CONST", "F64CONST"} -> Push(s, Operand(ins, 0))
      [] ins.op \in BinOps -> BinCast(s, ins.op, b)
      [] ins.op \in ShiftOps -> ShiftCast(s, ins.op, b)
      [] OTHER -> Err(s)

(***************************************************************************)
(* The interpreter as a state machine.  inst is the Instance; phase is     *)
(* where the host is: "new" before Instance::new, "start" while init runs  *)
(* the start function, "idle" between calls, "run" inside execute,         *)
(* "failed" after Instance::new returned an error and "aborted" after a    *)
(* panic.  native is the native call stack below the innermost run(): one  *)
(* entry per CALL arm waiting for its nested run(), holding its arity.     *)
(* last records the host call in progress or last completed.               *)
(***************************************************************************)
\* limits handed to Instance::new
MaxFrames == 3

MaxStacks == 4

MaxLabels == 4

MaxPages == 2

\* start sections of the modules created (None, or Some(function index))
StartChoices == {None, Some(0), Some(1), Some(Len(Functions))}

\* argument vectors handed to execute
ArgChoices == {<<>>, <<U64(5)>>, <<U64(5), U64(9)>>}

\* names handed to execute
NameChoices == DOMAIN ExportSection \cup {"nosuch"}

Snapshot(s) == [count |-> s.count, stack_base |-> s.stack_base, label_base |-> s.label_base]

\* the record of no host call: op and its inputs (name, args, start), the
\* outcome k and value v, the outcome start_k of the start function's run and
\* pushed of the entry frame's push_frame, the registers at entry, whether the
\* call before ended in a trap, the instance before the call, and the number n
\* of operations done
NoCall ==
    [op |-> "none", name |-> "", args |-> <<>>, k |-> "none", v |-> <<>>,
     start |-> None, start_k |-> "none", pushed |-> "none",
     entry |-> [count |-> 0, stack_base |-> 0, label_base |-> 0],
     after_trap |-> FALSE, pre |-> <<>>, n |-> 0]

Init ==
    /\ inst = NewInstance(MaxFrames, MaxStacks, MaxLabels, MaxPages)
    /\ native = <<>>
    /\ phase = "new"
    /\ last = NoCall
    /\ build \in Builds

\* the head of Runnable::run: push_label(result_type.is_some(), frame_body, false)?
RunBegin(s) == PushLabel(s, s.result_type # None, s.frame_body, FALSE)

\* the tail of Initializer::init after the start section: the export section
InitExports(s) == [s EXCEPT !.exports = ExportSection]

\* opt_to_vec!
OptToVec(o) == o

\* The host call whose record is call returns with outcome k and value v: a
\* panic aborts; init discards what self.run() returned for the start function
\* and goes on to the exports; execute returns it.
Finish(s, call, k, v) ==
    /\ native' = <<>>
    /\ IF k = "panic"
       THEN /\ inst' = s /\ phase' = "aborted"
            /\ last' = [call EXCEPT !.k = "panic"]
       ELSE IF call.op = "create"
       THEN /\ inst' = InitExports(s) /\ phase' = "idle"
            /\ last' = [call EXCEPT !.k = "ok", !.start_k = k]
       ELSE /\ inst' = s /\ phase' = "idle"
            /\ last' = [call EXCEPT !.k = k, !.v = IF k = "ok" THEN OptToVec(v) ELSE <<>>]

\* the host call enters run(): rb is the outcome of its push_label
Begun(rb, call) ==
    IF rb.k # "ok" THEN Finish(rb.s, call, rb.k, <<>>)
    ELSE /\ inst' = rb.s /\ native' = <<>>
         /\ phase' = (IF call.op = "create" THEN "start" ELSE "run")
         /\ last' = [call EXCEPT !.k = "running"]

\* the host call has pushed its entry frame with outcome pf, which it does not
\* look at: `self.push_frame(...);` then `self.run()`
Pushed(pf, call) ==
    IF pf.k = "panic" THEN Finish(pf.s, call, "panic", <<>>)
    ELSE Begun(RunBegin(pf.s), [call EXCEPT !.pushed = pf.k, !.entry = Snapshot(pf.s)])

\* Instance::new(bin, ...) for a module whose start section is start
Create(start) ==
    /\ phase = "new"
    /\ UNCHANGED build
    /\ IF start = None
       THEN /\ inst' = InitExports(inst) /\ native' = <<>> /\ phase' = "idle"
            /\ last' = [NoCall EXCEPT !.op = "create", !.k = "ok"]
       ELSE IF start[1] >= Len(Functions) \/ Functions[start[1] + 1].kind # "wasm"
       THEN /\ inst' = inst /\ native' = <<>> /\ phase' = "failed"
            /\ last' = [NoCall EXCEPT !.op = "create", !.start = start, !.k = "err"]
       ELSE Pushed(PushFrame(inst, Functions[start[1] + 1], Some(<<>>)),
                   [NoCall EXCEPT !.op = "create", !.start = start])

\* the host's previous call was an execute of an export that returned Err
Trapped == last.op = "execute" /\ last.k = "err" /\ last.name \in DOMAIN inst.exports

\* Instance::execute(name, args) up to the first iteration of run()'s loop
Execute(name, args) ==
    /\ phase = "idle"
    /\ UNCHANGED build
    /\ IF name \notin DOMAIN inst.exports
       THEN /\ inst' = inst /\ native' = <<>> /\ phase' = "idle"
            /\ last' = [NoCall EXCEPT !.op = "execute", !.name = name, !.args = args,
                                      !.after_trap = Trapped,
                                      !.pre = inst, !.k = "err"]
       ELSE Pushed(PushFrame(inst, Functions[inst.exports[name] + 1], Some(args)),
                   [NoCall EXCEPT !.op = "execute", !.name = name, !.args = args,
                                  !.after_trap = Trapped,
                                  !.pre = inst])

\* The innermost run() returns r (Ret's result, or an Err / panic on the way).
\* An Err goes up through every `self.run()?` and `self.invoke(ins)?` of the
\* native stack to the host call; an Ok value goes to the CALL arm on top of
\* the native stack, which pushes it when its callee had a result
\* (run() hands back 0 for Ok(None), as the ret of src/rust/src/instance.rs).
Resume(p) ==
    IF p.k # "ok" THEN Finish(p.s, last, p.k, <<>>)
    ELSE /\ inst' = p.s
         /\ native' = SubSeq(native, 1, Len(native) - 1)
         /\ UNCHANGED <<phase, last>>

RunReturn(r) ==
    IF r.k # "ok" THEN Finish(r.s, last, r.k, <<>>)
    ELSE IF native = <<>> THEN Finish(r.s, last, "ok", r.v)
    ELSE IF native[Len(native)]
    THEN Resume(Push(r.s, IF r.v = None THEN Zero64 ELSE r.v[1]))
    ELSE Resume(Ok(r.s, <<>>))

\* the CALL arm enters the nested run(): rb is the outcome of its push_label
Nested(rb, arity) ==
    IF rb.k # "ok" THEN RunReturn(rb)
    ELSE /\ inst' = rb.s
         /\ native' = Append(native, arity)
         /\ UNCHANGED <<phase, last>>

\* what the loop does with the outcome r of invoke(ins)
Invoked(r) ==
    IF r.k = "ok" THEN /\ inst' = r.s /\ UNCHANGED <<native, phase, last>>
    ELSE IF r.k = "call" THEN Nested(RunBegin(r.s), r.v)
    ELSE RunReturn(r)

\* what the loop does with the outcome r of pop_label()
Popped(r) ==
    IF r.k # "ok" THEN RunReturn(r)
    ELSE /\ inst' = r.s /\ UNCHANGED <<native, phase, last>>

\* one iteration of the loop of the innermost Runnable::run (or its exit)
Step ==
    /\ phase \in {"start", "run"}
    /\ UNCHANGED build
    /\ IF inst.label_size = 0 THEN RunReturn(Ret(inst))
       ELSE IF inst.label_pc >= inst.label_body.size THEN Popped(PopLabel(inst))
       ELSE IF InsInVec(inst.label_body, inst.label_pc).op = "RETURN"
       THEN RunReturn(Ret(inst))
       ELSE Invoked(Invoke([inst EXCEPT !.label_pc = @ + 1],
                           InsInVec(inst.label_body, inst.label_pc), build))

Next ==
    \/ \E start \in StartChoices : Create(start)
    \/ \E name \in NameChoices, args \in ArgChoices : Execute(name, args)
    \/ Step

Spec == Init /\ [][Next]_vars

(***************************************************************************)
(* The arithmetic arms on their own: two operand cells on the operand      *)
(* stack of a frame, and one binary instruction dispatched on them.        *)
(***************************************************************************)
\* operands range over -MaxOperand..MaxOperand and the extremes
MaxOperand == 3

MinI32 == -2147483647 - 1

MaxI32 == -(MinI32 + 1)

ArithInts == (-MaxOperand..MaxOperand) \cup {MinI32, MinI32 + 1, MaxI32}

\* the cells an operand can be: what I32CONST pushes (zero extended), what
\* I64CONST pushes and what the signed i32 arms leave (sign extended), and
\* i64::MIN
ArithCells ==
    {ZeroExt(U32(n)) : n \in ArithInts} \cup {U64(n) : n \in ArithInts}
        \cup {MinLimbs(4)}

\* an instance inside a call, with the cells a then b pushed
ArithInstance(a, b) ==
    [NewInstance(MaxFrames, MaxStacks, MaxLabels, MaxPages) EXCEPT
        !.count = 1, !.stack_data[0] = a, !.stack_data[1] = b, !.stack_size = 2]

InitArith ==
    /\ \E a \in ArithCells, b \in ArithCells : inst = ArithInstance(a, b)
    /\ native = <<>>
    /\ phase = "arith"
    /\ last = NoCall
    /\ build \in Builds

\* the outcome r of the dispatch is recorded
Applied(r, op, args) ==
    /\ inst' = r.s
    /\ phase' = "done"
    /\ last' = [NoCall EXCEPT !.op = op, !.args = args, !.k = r.k, !.pre = inst,
                              !.n = 1]
    /\ UNCHANGED <<native, build>>

\* invoke(ins) for a binary arithmetic instruction
Arith(op) ==
    /\ phase = "arith"
    /\ Applied(Invoke(inst, Op0(op), build), op,
               <<inst.stack_data[0], inst.stack_data[1]>>)

NextArith == \E op \in BinOps : Arith(op)

SpecArith == InitArith /\ [][NextArith]_vars

(***************************************************************************)
(* The shift arms on their own: a value cell and a count cell on the       *)
(* operand stack of a frame, and one shift instruction dispatched on them. *)
(***************************************************************************)
\* the cells shifted: 1, 5, -1 and i32::MIN as i32 and as i64 constants
ShiftCells ==
    {ZeroExt(U32(n)) : n \in {1, 5, -1, MinI32}} \cup {U64(-1), MinLimbs(4)}

\* the counts: around both widths, 2^32 and the all-ones cells
ShiftCounts ==
    {U64(n) : n \in {0, 1, 31, 32, 33, 63, 64, 65}}
        \cup {<<0, 0, 1, 0>>, ZeroExt(U32Max), U64Max}

InitShift ==
    /\ \E a \in ShiftCells, c \in ShiftCounts : inst = ArithInstance(a, c)
    /\ native = <<>>
    /\ phase = "arith"
    /\ last = NoCall
    /\ build \in Builds

\* invoke(ins) for a shift instruction
Shift(op) ==
    /\ phase = "arith"
    /\ Applied(Invoke(inst, Op0(op), build), op,
               <<inst.stack_data[0], inst.stack_data[1]>>)

NextShift == \E op \in ShiftOps : Shift(op)

SpecShift == InitShift /\ [][NextShift]_vars

(***************************************************************************)
(* The linear memory on its own: an instance inside a call whose module    *)
(* declared a memory, the memory instructions dispatched on operands       *)
(* pushed for them, and the host's Memory::read / Memory::write.           *)
(***************************************************************************)
\* operations per behaviour
MaxMemOps == 1

\* the memory sections of the modules: initial pages and declared maximum
MemInitials == 0..MaxPages

MemMaxima == {None, Some(1)}

\* the bytes of the module's data segment, and where it goes in a memory of
\* len bytes (None: no data section)
SegmentBytes == <<5, 6, 0, 7>>

SegmentOffsets(len) == {None} \cup {Some(o) : o \in {0, len - 4} \cap Nat}

\* Initializer::init's data section: self.memory.write(off, seg.value()), the
\* outcome of which is not looked at
MemData(m, seg) == IF seg = None THEN m ELSE MemWrite(m, seg[1], SegmentBytes).s

\* Initializer::init's memory section: self.memory.init(limits), the outcome
\* of which is not looked at
MemSection(initial, maximum) ==
    MemInit(WithMaxPages(MemDefault, MaxPages), initial, maximum).s

\* an instance inside a call, its module having declared the memory
MemInstance(m) ==
    [NewInstance(MaxFrames, MaxStacks, MaxLabels, MaxPages) EXCEPT
        !.memory = m, !.count = 1]

InitMem ==
    /\ \E initial \in MemInitials, maximum \in MemMaxima :
         /\ IF maximum = None THEN TRUE ELSE initial <= maximum[1]
         /\ \E seg \in SegmentOffsets(initial * PAGE_SIZE) :
              inst = MemInstance(MemData(MemSection(initial, maximum), seg))
    /\ native = <<>>
    /\ phase = "mem"
    /\ last = NoCall
    /\ build \in Builds

\* address cells: around the end of the memory of len bytes, i32::MAX, 2^31,
\* and the all-ones cell that i32.div_s leaves for -1
AddrCells(len) ==
    {U64(a) : a \in {0, len - 8, len - 4, len - 3, len - 1, len} \cap Nat}
        \cup {U64(MaxI32), <<0, HalfBase, 0, 0>>, U64Max}

\* static offsets of the memory instructions
OffsetChoices == {U32(0), U32(1)}

LoadChoices == {"I32LOAD", "I64LOAD", "I32LOAD8S", "I32LOAD16U"}

StoreChoices == {"I32STORE", "I64STORE", "I32STORE8", "I32STORE16"}

\* the value stored: bytes 1, 2, ..., 8
StoreValue == <<513, 1027, 1541, 2055>>

\* page counts handed to memory.grow
GrowCells == {U64(n) : n \in 0..(MaxPages + 1)} \cup {ZeroExt(U32Max)}

\* byte strings and offsets the host writes and reads
HostBytes == {<<7>>, <<7, 9>>}

HostOffsets(len) == {0, len - 2, len - 1, len} \cap Nat

\* the outcome r of an operation is recorded; v is the value it produced
MemApplied(r, op, args, v) ==
    /\ inst' = r.s
    /\ phase' = (IF r.k = "panic" THEN "aborted" ELSE "mem")
    /\ last' = [NoCall EXCEPT !.op = op, !.args = args, !.k = r.k, !.v = v,
                              !.pre = inst, !.n = last.n + 1]
    /\ UNCHANGED <<native, build>>

\* a value-producing instruction was dispatched with outcome r: its result is
\* popped off (as a drop would) and recorded
MemResult(r, op, args) ==
    IF r.k = "ok" THEN MemApplied(Pop(r.s), op, args, Pop(r.s).v)
    ELSE MemApplied(r, op, args, <<>>)

\* const addr; load
MemLoad(op, addr, off) ==
    /\ phase = "mem" /\ last.n < MaxMemOps
    /\ addr \in AddrCells(inst.memory.len)
    /\ MemResult(Invoke(Push(inst, addr).s, Ins(op, None, 0, off), build),
                 op, <<addr, off>>)

\* const addr; const value; store
MemStore(op, addr, off) ==
    /\ phase = "mem" /\ last.n < MaxMemOps
    /\ addr \in AddrCells(inst.memory.len)
    /\ MemApplied(Invoke(Push(Push(inst, addr).s, StoreValue).s,
                         Ins(op, None, 0, off), build),
                  op, <<addr, off>>, <<>>)

\* const n; memory.grow
MemGrowOp(n) ==
    /\ phase = "mem" /\ last.n < MaxMemOps
    /\ MemResult(Invoke(Push(inst, n).s, Op0("GROWMEMORY"), build),
                 "GROWMEMORY", <<n>>)

\* memory.size
MemSizeOp ==
    /\ phase = "mem" /\ last.n < MaxMemOps
    /\ MemResult(Invoke(inst, Op0("CURRENTMEMORY"), build), "CURRENTMEMORY", <<>>)

\* the memory's outcome r of a host access, as an outcome on the instance
OnInstance(r) == [k |-> r.k, s |-> [inst EXCEPT !.memory = r.s], v |-> r.v]

\* Memory::write(o, bs)
HostWrite(o, bs) ==
    /\ phase = "mem" /\ last.n < MaxMemOps
    /\ o \in HostOffsets(inst.memory.len)
    /\ MemApplied(OnInstance(MemWrite(inst.memory, o, bs)), "write", <<o, bs>>, <<>>)

\* Memory::read(o, dst) with dst.len() = n
HostRead(o, n) ==
    /\ phase = "mem" /\ last.n < MaxMemOps
    /\ o \in HostOffsets(inst.memory.len)
    /\ MemApplied(OnInstance(MemRead(inst.memory, o, n)), "read", <<o, n>>,
                  MemRead(inst.memory, o, n).v)

\* Memory::clear()
HostClear ==
    /\ phase = "mem" /\ last.n < MaxMemOps
    /\ MemApplied(OnInstance(MemClear(inst.memory)), "clear", <<>>, <<>>)

(***************************************************************************)
(* The JNI layer's memory access (lib.rs), off and len being jint.  An     *)
(* `x as usize` of a negative jint is above every memory length.           *)
(***************************************************************************)
\* off + len on i32 overflows
JintAddOverflows(off, len) ==
    IF len >= 0 THEN off > MaxI32 - len ELSE off < MinI32 - len

\* the wrapped sum of an overflowing off + len
JintAddWrapped(off, len) ==
    IF len >= 0 THEN (off + MinI32) + (len + MinI32)
    ELSE (off - MinI32) + (len - MinI32)

\* get_memory after off + len gave end: the check (off + len) as usize >
\* data.len(), then the slice [off as usize .. end as usize], which panics
\* when it starts after its end
GetMemorySlice(m, off, len, end) ==
    IF end < 0 \/ end > m.len THEN Err(m)
    ELSE IF off < 0 \/ off > end \/ end - off # len THEN Panic(m)
    ELSE Ok(m, GetBytes(m, off, len))

\* get_memory(env, descriptor, off, len) in build b: vec![0u8; len as usize]
\* comes first and panics on a capacity above isize::MAX
GetMemory(m, off, len, b) ==
    IF len < 0 THEN Panic(m)
    ELSE IF JintAddOverflows(off, len)
    THEN IF b = "debug" THEN Panic(m)
         ELSE GetMemorySlice(m, off, len, JintAddWrapped(off, len))
    ELSE GetMemorySlice(m, off, len, off + len)

\* set_memory for a negative off: off as usize + bytes.len() overflows usize
\* when off + len >= 0, and the slice then starts after its end
SetMemoryNegative(m, off, len, b) ==
    IF off + len < 0 THEN Err(m)
    ELSE IF b = "debug" \/ off + len <= m.len THEN Panic(m)
    ELSE Err(m)

\* set_memory(env, descriptor, off, buf) in build b, bs being the bytes of buf
SetMemory(m, off, bs, b) ==
    IF off < 0 THEN SetMemoryNegative(m, off, Len(bs), b)
    ELSE IF off > m.len - Len(bs) THEN Err(m)
    ELSE Ok([m EXCEPT !.data = SetBytes(m.data, off, bs)], <<>>)

\* offsets and lengths the Java side hands over
JintOffsets(len) == {-2, -1, 0, len - 1, len, MaxI32}

JintLengths == {-1, 0, 1, 2}

\* getMemory(off, len)
JniGet(off, len) ==
    /\ phase = "mem" /\ last.n < MaxMemOps
    /\ MemApplied(OnInstance(GetMemory(inst.memory, off, len, build)),
                  "get_memory", <<off, len>>,
                  GetMemory(inst.memory, off, len, build).v)

\* setMemory(off, bytes)
JniSet(off, bs) ==
    /\ phase = "mem" /\ last.n < MaxMemOps
    /\ MemApplied(OnInstance(SetMemory(inst.memory, off, bs, build)),
                  "set_memory", <<off, bs>>, <<>>)

NextMem ==
    \/ \E op \in LoadChoices, addr \in AddrCells(inst.memory.len),
          off \in OffsetChoices : MemLoad(op, addr, off)
    \/ \E op \in StoreChoices, addr \in AddrCells(inst.memory.len),
          off \in OffsetChoices : MemStore(op, addr, off)
    \/ \E n \in GrowCells : MemGrowOp(n)
    \/ MemSizeOp
    \/ \E o \in HostOffsets(inst.memory.len), bs \in HostBytes : HostWrite(o, bs)
    \/ \E o \in HostOffsets(inst.memory.len), n \in 1..2 : HostRead(o, n)
    \/ \E off \in JintOffsets(inst.memory.len), len \in JintLengths : JniGet(off, len)
    \/ \E off \in JintOffsets(inst.memory.len), bs \in HostBytes : JniSet(off, bs)
    \/ HostClear

SpecMem == InitMem /\ [][NextMem]_vars

(***************************************************************************)
(* Control flow: an instance of the test module, idle after Instance::new, *)
(* on which the host executes one of the control-flow functions; the       *)
(* dispatcher then runs step by step.                                      *)
(***************************************************************************)
\* the export section of the control-flow functions: name -> function index
CtlExports ==
    [brt |-> 6, brtempty |-> 7, brtwide |-> 8,
     nest |-> 9, cond |-> 10, ifelse |-> 11, exit |-> 12, rec |-> 13,
     calli |-> 14, under |-> 17]

\* the table of the instance: the module's element section has a segment at
\* offset 0 and one at offset 2, for each of which init puts functions[0]
CtlTable == PutElements(PutElements(<<>>, 0, <<Functions[1]>>), 2, <<Functions[1]>>)

\* the cells handed to a function as its i32 parameter: small values, values
\* around u16::MAX, u32::MAX and a cell with bits above the low 32
IndexCells ==
    {U64(0), U64(1), U64(2), U64(Base - 2), U64(Base - 1), U64(Base),
     ZeroExt(U32Max), <<0, 0, 1, 0>>}

InitCtl ==
    /\ inst = [NewInstance(MaxFrames, MaxStacks, MaxLabels, MaxPages)
                  EXCEPT !.exports = CtlExports, !.table = CtlTable]
    /\ native = <<>>
    /\ phase = "idle"
    /\ last = NoCall
    /\ build \in Builds

\* the host's one call of execute
CtlExecute(name, arg) == last.op = "none" /\ Execute(name, <<arg>>)

NextCtl ==
    \/ \E name \in DOMAIN CtlExports, arg \in IndexCells : CtlExecute(name, arg)
    \/ Step

SpecCtl == InitCtl /\ [][NextCtl]_vars

(***************************************************************************)
(* The calling functions on their own, on a stack with room for three      *)
(* frames of keep, busy and const7.                                        *)
(***************************************************************************)
CallExports == [keep |-> 18, callid |-> 4, rec |-> 13, calli |-> 14]

InitCall ==
    /\ inst = [NewInstance(MaxFrames, 2 * MaxStacks, MaxLabels, MaxPages)
                  EXCEPT !.exports = CallExports, !.table = CtlTable]
    /\ native = <<>>
    /\ phase = "idle"
    /\ last = NoCall
    /\ build \in Builds

CallExecute(name, arg) == last.op = "none" /\ Execute(name, <<arg>>)

NextCall ==
    \/ \E name \in DOMAIN CallExports, arg \in IndexCells : CallExecute(name, arg)
    \/ Step

SpecCall == InitCall /\ [][NextCall]_vars

(***************************************************************************)
(* The operand stack on its own: a frame with stack_size operands on an    *)
(* instance of max_stacks cells, and one push, pop or peek, or a push and  *)
(* the pop that follows it.                                                *)
(***************************************************************************)
\* max_stacks is a u32 and stack_size a u16: limits and sizes around MaxStacks
\* and around u16::MAX
StackLimits == {MaxStacks, Base - 1, Base, Base + 1}

StackSizes == {0, 1, MaxStacks - 1, MaxStacks, Base - 2, Base - 1}

StackValues == {U64(1), U64Max}

\* the first frame, of a function without locals, holding n operands
StackInstance(m, n) ==
    [NewInstance(MaxFrames, m, MaxLabels, MaxPages) EXCEPT !.count = 1, !.stack_size = n]

InitStack ==
    /\ inst \in {StackInstance(m, n) : m \in StackLimits, n \in StackSizes}
    /\ inst.stack_size <= inst.max_stacks
    /\ native = <<>>
    /\ phase = "idle"
    /\ last = NoCall
    /\ build \in Builds

\* the outcome r of the operation op on the argument args; n keeps the
\* stack_size before it
Stacked(r, op, args, then) ==
    /\ inst' = r.s
    /\ phase' = IF r.k = "panic" THEN "aborted" ELSE then
    /\ last' = [NoCall EXCEPT !.op = op, !.k = r.k, !.v = r.v, !.args = args,
                              !.n = inst.stack_size]
    /\ UNCHANGED <<native, build>>

StackPush(v) ==
    /\ phase = "idle"
    /\ \E r \in {Push(inst, v)} : Stacked(r, "push", <<v>>, "pushed")

StackPop ==
    /\ phase \in {"idle", "pushed"}
    /\ \E r \in {Pop(inst)} : Stacked(r, "pop", <<>>, "done")

StackPeek ==
    /\ phase = "idle"
    /\ \E r \in {Peek(inst)} : Stacked(r, "peek", <<>>, "done")

NextStack ==
    \/ \E v \in StackValues : StackPush(v)
    \/ StackPop
    \/ StackPeek

SpecStack == InitStack /\ [][NextStack]_vars

(***************************************************************************)
(* The table of instances (lib.rs): static mut INSTANCES, empty until the  *)
(* first create_instance fills it with MAX_INSTANCES empty slots.  A slot  *)
(* is None or Some(instance); an instance is known by the number of its    *)
(* creation.  made counts the instances created, calls the host's calls.   *)
(***************************************************************************)
MAX_INSTANCES == 1024

\* the host's calls in a behaviour
MaxCalls == 2

\* the registry with the slots in live holding instances, created in the
\* order of their slots
Registry(live) ==
    [INSTANCES |-> [i \in 1..MAX_INSTANCES |-> IF i - 1 \in live THEN Some(i) ELSE None],
     made |-> MAX_INSTANCES, calls |-> 0]

\* before the first create_instance: vec![]
NoRegistry == [INSTANCES |-> <<>>, made |-> 0, calls |-> 0]

\* if INSTANCES.is_empty() { for _ in 0..MAX_INSTANCES { INSTANCES.push(None) } }
Filled(table) ==
    IF Len(table) = 0 THEN [i \in 1..MAX_INSTANCES |-> None] ELSE table

\* a scan that takes slot 0 whatever it holds
FirstSlot(table) == Some(0)

\* for i in 0..MAX_INSTANCES { match &mut INSTANCES[i] { None => ..., Some(_) =>
\* continue } }: the first empty slot, if there is one
FirstEmpty(table) ==
    IF \A i \in 1..MAX_INSTANCES : table[i] # None THEN None
    ELSE Some(CHOOSE i \in 0..(MAX_INSTANCES - 1) :
                 /\ table[i + 1] = None
                 /\ \A j \in 0..(i - 1) : table[j + 1] # None)

\* an error with its message
ErrOf(s, message) == [Err(s) EXCEPT !.v = message]

\* the None arm of create_instance's scan at slot i: the module is compiled
\* and instantiated, which fails or gives the instance stored in the slot
CreateAt(s, i, outcome) ==
    IF outcome = "bad_module" THEN ErrOf(s, "module")
    ELSE Ok([s EXCEPT !.INSTANCES[i + 1] = Some(s.made + 1), !.made = @ + 1], i)

CreateScan(s, first, outcome) ==
    IF first = None THEN ErrOf(s, "instance descriptor overflows")
    ELSE CreateAt(s, first[1], outcome)

\* create_instance; outcome: the conversion of hosts or signatures fails
\* (bad_args), Module::new or Instance::new fails (bad_module), or none does
CreateInstance(s, outcome) ==
    IF outcome = "bad_args" THEN ErrOf(s, "arguments")
    ELSE CHOOSE r \in {CreateScan([s EXCEPT !.INSTANCES = t], FirstEmpty(t), outcome) :
                         t \in {Filled(s.INSTANCES)}} : TRUE

\* `descriptor as usize` of a jint: sign extension to 64 bits
AsUsize(d) == ToLimbs(d, 4)

\* close
Close(s, descriptor) ==
    IF GtLimbs(AsUsize(descriptor), AsUsize(Len(s.INSTANCES))) THEN Ok(s, <<>>)
    ELSE IF ~GtLimbs(AsUsize(Len(s.INSTANCES)), AsUsize(descriptor)) THEN Panic(s)
    ELSE Ok([s EXCEPT !.INSTANCES[descriptor + 1] = None], <<>>)

\* get_ins_by_id!, as execute, get_memory and set_memory begin
GetInsById(s, id) ==
    IF ~GtLimbs(AsUsize(Len(s.INSTANCES)), AsUsize(id)) THEN ErrOf(s, "instance not found")
    ELSE IF s.INSTANCES[id + 1] = None THEN ErrOf(s, "instance not found")
    ELSE Ok(s, s.INSTANCES[id + 1][1])

\* the descriptors the host passes: a jint
Descriptors ==
    {MinI32, -1, 0, 1, 2, MAX_INSTANCES - 1, MAX_INSTANCES, MAX_INSTANCES + 1, MaxI32}

\* the registries the host's calls begin with: never used, no instance, some
\* instances, all slots but one taken, and all taken
Registries ==
    {NoRegistry, Registry({}), Registry({0}), Registry({1}),
     Registry(0..(MAX_INSTANCES - 2)), Registry((0..(MAX_INSTANCES - 1)) \ {2}),
     Registry(0..(MAX_INSTANCES - 1))}

InitTable ==
    /\ inst \in Registries
    /\ native = <<>>
    /\ phase = "idle"
    /\ last = NoCall
    /\ build \in Builds

\* the host's call op(args) returned r; a panic aborts the host
Called(r, op, args) ==
    /\ inst' = [r.s EXCEPT !.calls = @ + 1]
    /\ phase' = IF r.k = "panic" THEN "aborted" ELSE "idle"
    /\ last' = [NoCall EXCEPT !.op = op, !.k = r.k, !.v = r.v, !.args = args,
                              !.pre = inst]
    /\ UNCHANGED <<native, build>>

CanCall == phase = "idle" /\ inst.calls < MaxCalls

\* createInstance
TableCreate(outcome) ==
    /\ CanCall
    /\ \E r \in {CreateInstance(inst, outcome)} : Called(r, "create_instance", <<outcome>>)

\* close(descriptor)
TableClose(descriptor) ==
    /\ CanCall
    /\ \E r \in {Close(inst, descriptor)} : Called(r, "close", <<descriptor>>)

\* execute, getMemory or setMemory on a descriptor, up to its lookup
TableLookup(id) ==
    /\ CanCall
    /\ \E r \in {GetInsById(inst, id)} : Called(r, "get_ins_by_id", <<id>>)

NextTable ==
    \/ \E outcome \in {"bad_args", "bad_module", "ok"} : TableCreate(outcome)
    \/ \E descriptor \in Descriptors : TableClose(descriptor)
    \/ \E id \in Descriptors : TableLookup(id)

SpecTable == InitTable /\ [][NextTable]_vars

(***************************************************************************)
(* Two threads of the host in createInstance at once.  INSTANCES is a      *)
(* static mut that create_instance reads and writes inside unsafe, without *)
(* a lock: the threads' accesses interleave.  native[t] is the call of     *)
(* thread t: where it is, the slot it found empty, and its result.  A step *)
(* is one access to the table; the reads of slots that hold instances are  *)
(* taken together with the read of the first empty slot, since no creator  *)
(* empties a slot.                                                         *)
(***************************************************************************)
Threads == {1, 2}

Creating == [pc |-> "start", slot |-> 0, k |-> "none", v |-> 0, made |-> 0]

InitRace ==
    /\ inst \in {NoRegistry, Registry({}), Registry({0}),
                  Registry(0..(MAX_INSTANCES - 2)), Registry(0..(MAX_INSTANCES - 1))}
    /\ native = [t \in Threads |-> Creating]
    /\ phase = "idle"
    /\ last = NoCall
    /\ build \in Builds

\* if INSTANCES.is_empty()
RaceCheck(t) ==
    /\ native[t].pc = "start"
    /\ native' = [native EXCEPT ![t].pc = IF Len(inst.INSTANCES) = 0 THEN "fill" ELSE "scan"]
    /\ UNCHANGED <<inst, phase, last, build>>

\* for _ in 0..MAX_INSTANCES { INSTANCES.push(None) }
RaceFill(t) ==
    /\ native[t].pc = "fill"
    /\ inst' = [inst EXCEPT !.INSTANCES = @ \o [i \in 1..MAX_INSTANCES |-> None]]
    /\ native' = [native EXCEPT ![t].pc = "scan"]
    /\ UNCHANGED <<phase, last, build>>

\* the scan up to the first slot it reads as None
Scanned(call, first) ==
    IF first = None
    THEN [call EXCEPT !.pc = "done", !.k = "err", !.v = "instance descriptor overflows"]
    ELSE [call EXCEPT !.pc = "make", !.slot = first[1]]

RaceScan(t) ==
    /\ native[t].pc = "scan"
    /\ native' = [native EXCEPT ![t] = Scanned(@, FirstEmpty(inst.INSTANCES))]
    /\ UNCHANGED <<inst, phase, last, build>>

\* the None arm: the module is compiled and instantiated, and on success
\* *m = Some(instance); return Ok(i as jint)
RaceStore(t, outcome) ==
    /\ native[t].pc = "make"
    /\ \E r \in {CreateAt(inst, native[t].slot, outcome)} :
          /\ inst' = r.s
          /\ native' = [native EXCEPT ![t].pc = "done", ![t].k = r.k, ![t].v = r.v,
                                      ![t].made = r.s.made]
    /\ UNCHANGED <<phase, last, build>>

NextRace ==
    \/ \E t \in Threads : RaceCheck(t)
    \/ \E t \in Threads : RaceFill(t)
    \/ \E t \in Threads : RaceScan(t)
    \/ \E t \in Threads, outcome \in {"bad_module", "ok"} : RaceStore(t, outcome)

SpecRace == InitRace /\ [][NextRace]_vars

(***************************************************************************)
(* The packed descriptors as the 64-bit words they are (frame_data.rs and  *)
(* its older copy in src/rust/src/instance.rs, offset.rs): new packs the   *)
(* fields with shifts and ors, the getters mask and shift.  A u16 field is *)
(* a number, a u32 field a word of two limbs, the descriptor four limbs.   *)
(***************************************************************************)
\* a & m and a | b of two words of one length, bit by bit
RECURSIVE AndLimb(_, _, _, _)
AndLimb(a, m, j, i) ==
    IF i < 0 THEN 0
    ELSE BitOf(a, 16 * (j - 1) + i) * BitOf(m, 16 * (j - 1) + i) * Pow2(i)
             + AndLimb(a, m, j, i - 1)

AndLimbs(a, m) == [j \in 1..Len(a) |-> AndLimb(a, m, j, 15)]

RECURSIVE OrLimb(_, _, _, _)
OrLimb(a, b, j, i) ==
    IF i < 0 THEN 0
    ELSE (IF BitOf(a, 16 * (j - 1) + i) = 1 \/ BitOf(b, 16 * (j - 1) + i) = 1
          THEN Pow2(i) ELSE 0) + OrLimb(a, b, j, i - 1)

OrLimbs(a, b) == [j \in 1..Len(a) |-> OrLimb(a, b, j, 15)]

\* `x as u64` of a u16, and `x as u16` of a u64
U16AsU64(x) == <<x, 0, 0, 0>>

AsU16(w) == w[1]

LABEL_SIZE_MASK == <<0, 0, 0, Base - 1>>

LABEL_SIZE_SHIFTS == 48

LOCAL_SIZE_MASK == <<0, 0, Base - 1, 0>>

LOCAL_SIZE_SHIFTS == 32

STACK_SIZE_MASK == <<0, Base - 1, 0, 0>>

STACK_SIZE_SHIFTS == 16

FUNCTION_BITS_MASK == <<Base - 1, 0, 0, 0>>

FUNCTION_BITS_SHIFTS == 0

\* the mask of LabelData's label_pc in src/rust/src/instance.rs
LABEL_PC_MASK == <<0, 0, Base - 1, 0>>

\* FrameData::new as the word it builds (the same in both copies)
FrameDataNew(label_size, local_size, stack_size, func_bits) ==
    OrLimbs(OrLimbs(OrLimbs(ShlLimbs(U16AsU64(label_size), LABEL_SIZE_SHIFTS),
                            ShlLimbs(U16AsU64(local_size), LOCAL_SIZE_SHIFTS)),
                    ShlLimbs(U16AsU64(stack_size), STACK_SIZE_SHIFTS)),
            U16AsU64(func_bits))

\* a getter: ((self.0 & mask) >> shifts) as u16
FrameField(w, mask, shifts) == AsU16(ShrLimbs(AndLimbs(w, mask), shifts, 0))

\* FrameData::label_size, local_size, stack_size and func_bits of
\* types/frame_data.rs
FrameFields(w) ==
    << FrameField(w, LABEL_SIZE_MASK, LABEL_SIZE_SHIFTS),
       FrameField(w, LOCAL_SIZE_MASK, LOCAL_SIZE_SHIFTS),
       FrameField(w, STACK_SIZE_MASK, STACK_SIZE_SHIFTS),
       FrameField(w, FUNCTION_BITS_MASK, FUNCTION_BITS_SHIFTS) >>

\* the same getters of src/rust/src/instance.rs: label_size masks with
\* LABEL_PC_MASK
LegacyFrameFields(w) ==
    << FrameField(w, LABEL_PC_MASK, LABEL_SIZE_SHIFTS),
       FrameField(w, LOCAL_SIZE_MASK, LOCAL_SIZE_SHIFTS),
       FrameField(w, STACK_SIZE_MASK, STACK_SIZE_SHIFTS),
       FrameField(w, FUNCTION_BITS_MASK, FUNCTION_BITS_SHIFTS) >>

STACK_BASE_MASK == <<Base - 1, HalfBase - 1, 0, 0>>

STACK_BASE_SHIFTS == 0

LABEL_BASE_MASK == <<0, 0, Base - 1, HalfBase - 1>>

LABEL_BASE_SHIFTS == 32

\* Offset::new as the word it builds: (label_base as u64) << 32 | (stack_base as u64)
OffsetNew(label_base, stack_base) ==
    OrLimbs(ShlLimbs(ZeroExt(label_base), 32), ZeroExt(stack_base))

\* Offset::label_base and stack_base
OffsetFields(w) ==
    << AsU32(ShrLimbs(AndLimbs(w, LABEL_BASE_MASK), LABEL_BASE_SHIFTS, 0)),
       AsU32(ShrLimbs(AndLimbs(w, STACK_BASE_MASK), STACK_BASE_SHIFTS, 0)) >>

\* the u16 fields and the u32 bases packed: the ends of their ranges and the
\* values around bit 15 and bit 31
Fields16 == {0, 1, HalfBase, Base - 1}

Words32 == {U32(0), U32(1), <<Base - 1, HalfBase - 1>>, <<0, HalfBase>>, U32Max}

PackInputs ==
    {[kind |-> "frame", args |-> <<l, c, s, f>>, word |-> Zero64] :
        l \in Fields16, c \in Fields16, s \in Fields16, f \in Fields16}
        \cup {[kind |-> "offset", args |-> <<lb, sb>>, word |-> Zero64] :
                 lb \in Words32, sb \in Words32}

InitPack ==
    /\ inst \in PackInputs
    /\ native = <<>>
    /\ phase = "new"
    /\ last = NoCall
    /\ build \in Builds

Packed(w) ==
    /\ inst' = [inst EXCEPT !.word = w]
    /\ phase' = "packed"
    /\ UNCHANGED <<native, last, build>>

\* FrameData::new(l, c, s, f)
PackFrame ==
    /\ phase = "new" /\ inst.kind = "frame"
    /\ Packed(FrameDataNew(inst.args[1], inst.args[2], inst.args[3], inst.args[4]))

\* Offset::new(lb, sb)
PackOffset ==
    /\ phase = "new" /\ inst.kind = "offset"
    /\ Packed(OffsetNew(inst.args[1], inst.args[2]))

Unpacked(op, fields) ==
    /\ phase' = "done"
    /\ last' = [NoCall EXCEPT !.op = op, !.k = "ok", !.v = fields]
    /\ UNCHANGED <<inst, native, build>>

\* the getters of types/frame_data.rs on the packed word
UnpackFrame ==
    /\ phase = "packed" /\ inst.kind = "frame"
    /\ Unpacked("types", FrameFields(inst.word))

\* the getters of src/rust/src/instance.rs on the packed word
UnpackLegacy ==
    /\ phase = "packed" /\ inst.kind = "frame"
    /\ Unpacked("legacy", LegacyFrameFields(inst.word))

UnpackOffset ==
    /\ phase = "packed" /\ inst.kind = "offset"
    /\ Unpacked("offset", OffsetFields(inst.word))

NextPack ==
    \/ PackFrame
    \/ PackOffset
    \/ UnpackFrame
    \/ UnpackLegacy
    \/ UnpackOffset

SpecPack == InitPack /\ [][NextPack]_vars

(***************************************************************************)
(* The functions without loop and call on their own, with run() going on:  *)
(* run() is a loop of the one thread that called execute, so a dispatcher  *)
(* step that can be taken is taken.                                        *)
(***************************************************************************)
\* the exported functions whose bodies have no loop and no call (brtwide is
\* one more, with a table of u16::MAX labels)
LoopFree == {"brt", "brtempty", "nest", "cond", "ifelse"}

FlatCells == {U64(0), U64(1), U64(2)}

FlatExecute(name, arg) == last.op = "none" /\ Execute(name, <<arg>>)

NextFlat ==
    \/ \E name \in LoopFree, arg \in FlatCells : FlatExecute(name, arg)
    \/ Step

SpecFlat == InitCtl /\ [][NextFlat]_vars /\ WF_vars(Step)

(***************************************************************************)
(* The global arms on their own: an instance inside a call, with globals   *)
(* and some operand cells, and one global.get or global.set dispatched.    *)
(***************************************************************************)
\* the number of globals of the module
MaxGlobals == 2

\* GlobalType: the content type and is_mutable()
GlobalType(mutable) == [content |-> "I32", mutable |-> mutable]

GlobalTypeChoices == [1..MaxGlobals -> {GlobalType(FALSE), GlobalType(TRUE)}]

\* the values the init expressions gave the globals
GlobalChoices == [1..MaxGlobals -> {U64(0), U64(7)}]

\* the operand stack: up to two cells
GlobalStacks == {<<>>} \cup {<<a>> : a \in {U64(5), U64(9)}}
                  \cup {<<a, b>> : a \in {U64(5)}, b \in {U64(5), U64(9)}}

\* the indices global.get and global.set are decoded with
GlobalIndices == {U32(i) : i \in 0..MaxGlobals + 1} \cup {U32(Base), U32Max}

GlobalInstance(types, values, cells) ==
    [NewInstance(MaxFrames, MaxStacks, MaxLabels, MaxPages) EXCEPT
        !.count = 1, !.global_types = types, !.globals = values,
        !.stack_data = [i \in DOMAIN @ |-> IF i < Len(cells) THEN cells[i + 1] ELSE @[i]],
        !.stack_size = Len(cells)]

InitGlobal ==
    /\ \E types \in GlobalTypeChoices, values \in GlobalChoices, cells \in GlobalStacks :
          inst = GlobalInstance(types, values, cells)
    /\ native = <<>>
    /\ phase = "global"
    /\ last = NoCall
    /\ build \in Builds

\* invoke(ins) for global.get i and global.set i
GlobalGet(i) ==
    /\ phase = "global"
    /\ Applied(Invoke(inst, Ins("GETGLOBAL", None, 0, i), build), "GETGLOBAL", <<i>>)

GlobalSet(i) ==
    /\ phase = "global"
    /\ Applied(Invoke(inst, Ins("SETGLOBAL", None, 0, i), build), "SETGLOBAL", <<i>>)

NextGlobal ==
    \/ \E i \in GlobalIndices : GlobalGet(i)
    \/ \E i \in GlobalIndices : GlobalSet(i)

SpecGlobal == InitGlobal /\ [][NextGlobal]_vars

(***************************************************************************)
(* Straight-line code: an instance with a memory of one page and a mutable *)
(* global, idle after Instance::new, on which the host executes line, a    *)
(* function of parametric, local, global, memory, constant and numeric     *)
(* instructions and an if without else.                                    *)
(***************************************************************************)
LineExports == [line |-> 15]

InitLine ==
    /\ inst = [NewInstance(MaxFrames, MaxStacks, MaxLabels, MaxPages)
                  EXCEPT !.exports = LineExports,
                         !.memory = MemSection(1, None),
                         !.globals = <<Zero64>>,
                         !.global_types = <<GlobalType(TRUE)>>]
    /\ native = <<>>
    /\ phase = "idle"
    /\ last = NoCall
    /\ build \in Builds

\* the host's one call of execute
LineExecute(arg) == last.op = "none" /\ Execute("line", <<arg>>)

NextLine ==
    \/ \E arg \in IndexCells : LineExecute(arg)
    \/ Step

SpecLine == InitLine /\ [][NextLine]_vars

(***************************************************************************)
(* The br_table arm on its own: an instance inside the block of brt, one   *)
(* or two labels deep, the block's label with or without arity, the index  *)
(* on top of the operand stack, and the br_table dispatched.               *)
(***************************************************************************)
\* the operand stacks: the index alone, or a value below it
BranchStacks ==
    {<<i>> : i \in IndexCells} \cup
        {<<v, i>> : v \in {U64(7), U64(9)}, i \in IndexCells}

\* run() has fetched the br_table of brt and moved label_pc past it
BranchInstance(cells, depth, arity, is_loop) ==
    [GlobalInstance(<<>>, <<>>, cells) EXCEPT
        !.label_size = depth, !.arity = arity, !.is_loop = is_loop,
        !.label_body = InsVec(BrTableAt.brt, 2), !.label_pc = 2]

InitBranch ==
    /\ \E cells \in BranchStacks, depth \in {1, 2}, arity \in BOOLEAN,
          is_loop \in BOOLEAN :
          inst = BranchInstance(cells, depth, arity, is_loop)
    /\ native = <<>>
    /\ phase = "branch"
    /\ last = NoCall
    /\ build \in Builds

\* invoke(ins) for the br_table of brt
BrTable ==
    /\ phase = "branch"
    /\ Applied(Invoke(inst, PoolAt(BrTableAt.brt + 1), build), "BRTABLE", <<>>)

NextBranch == BrTable

SpecBranch == InitBranch /\ [][NextBranch]_vars

(***************************************************************************)
(* Loading (initializer.rs): Instance::new(bin, ...) parses the module and *)
(* runs init(md), section by section.  The module is the record of what    *)
(* init reads of it: types, the type indices of the function imports,      *)
(* funcs (the type_ref of each entry of the function section), codes (the  *)
(* number of bodies of the code section), the element segments, the        *)
(* entries of the memory section and the data segments.  It has no global, *)
(* start or export section.  An instance being loaded has, besides the     *)
(* fields of NewInstance, its types and its functions.                     *)
(***************************************************************************)
FN_INDEX_MASK == HalfBase - 1

\* FunctionInstance::HostFunction / WasmFunction; body is the index of the
\* function's code body
HostFunction(fn_type) == [kind |-> "host", fn_type |-> fn_type]

WASMFunction(fn_type, body) == [kind |-> "wasm", fn_type |-> fn_type, body |-> body]

\* the least element of a set of numbers
Least(S) == CHOOSE x \in S : \A y \in S : x <= y

\* the import section: get_or_err!(self.types, i, "function not found") for
\* each import, which is pushed as a HostFunction
ImportSection(s, imports) ==
    IF \E i \in 1..Len(imports) : imports[i] >= Len(s.types) THEN Err(s)
    ELSE Ok([s EXCEPT !.functions =
                @ \o [i \in 1..Len(imports) |-> HostFunction(s.types[imports[i] + 1])]],
            <<>>)

\* the entries i (from 0) of the function section at which the loop cannot
\* go on: t is not below types.len(), or i is not below codes.len()
FuncBad(types, funcs, codes) ==
    {i \in 0..Len(funcs) - 1 : funcs[i + 1] >= Len(types) \/ i >= codes}

\* the loop body at the first such entry i, of type index t: the test
\* `t > types.len() || i > codes.len()` returns the error, and when it does
\* not, self.types[t] or exprs[i] panics (index out of bounds)
FuncStops(s, t, i, codes) ==
    IF t > Len(s.types) \/ i > codes THEN Err(s) ELSE Panic(s)

\* the loop when no entry stops it: every function is pushed
FuncPushed(s, funcs) ==
    Ok([s EXCEPT !.functions =
           @ \o [i \in 1..Len(funcs) |-> WASMFunction(s.types[funcs[i] + 1], i - 1)]],
       <<>>)

FuncLoop(s, funcs, codes, bad) ==
    IF bad = {} THEN FuncPushed(s, funcs)
    ELSE FuncStops(s, funcs[Least(bad) + 1], Least(bad), codes)

\* the function section, r being the outcome of the sections before
FunctionSection(r, funcs, codes) ==
    IF r.k # "ok" THEN r
    ELSE IF Len(funcs) > FN_INDEX_MASK THEN Err(r.s)
    ELSE FuncLoop(r.s, funcs, codes, FuncBad(r.s.types, funcs, codes))

\* an element segment: its table index (e.index()), the value of its offset
\* expression if it has one, and its members
ElementSegment(index, offset, members) ==
    [index |-> index, offset |-> offset, members |-> members]

\* the elements section for one segment e:
\* put_elements(off, &[self.functions[e.index()]])
PutSegment(s, e) ==
    IF e.index >= Len(s.functions) THEN Panic(s)
    ELSE Ok([s EXCEPT !.table =
                PutElements(@, IF e.offset = None THEN 0 ELSE e.offset[1],
                            <<s.functions[e.index + 1]>>)], <<>>)

RECURSIVE ElementsFrom(_, _, _)
ElementsFrom(r, entries, i) ==
    IF r.k # "ok" \/ i > Len(entries) THEN r
    ELSE ElementsFrom(PutSegment(r.s, entries[i]), entries, i + 1)

ElementsSection(r, entries) == ElementsFrom(r, entries, 1)

\* ResizableLimits
Limits(initial, maximum) == [initial |-> initial, maximum |-> maximum]

\* the memory section: more than one entry is an error; self.memory.init(..)
\* is called and its outcome is not looked at
MemorySection(r, entries) ==
    IF r.k # "ok" \/ entries = <<>> THEN r
    ELSE IF Len(entries) > 1 THEN Err(r.s)
    ELSE Ok([r.s EXCEPT !.memory =
                MemInit(@, entries[1].initial, entries[1].maximum).s], <<>>)

\* a data segment: the value of its offset expression if it has one, and its
\* bytes
DataSegment(offset, value) == [offset |-> offset, value |-> value]

\* the data section for one segment: self.memory.write(off, seg.value()), the
\* outcome of which is not looked at
WriteSegment(s, seg) ==
    Ok([s EXCEPT !.memory =
           MemWrite(@, IF seg.offset = None THEN 0 ELSE seg.offset[1], seg.value).s],
       <<>>)

RECURSIVE DataFrom(_, _, _)
DataFrom(r, entries, i) ==
    IF r.k # "ok" \/ i > Len(entries) THEN r
    ELSE DataFrom(WriteSegment(r.s, entries[i]), entries, i + 1)

DataSection(r, entries) == DataFrom(r, entries, 1)

\* InitFromModule::init(md)
InitModule(s, md) ==
    DataSection(
        MemorySection(
            ElementsSection(
                FunctionSection(ImportSection([s EXCEPT !.types = md.types], md.imports),
                                md.funcs, md.codes),
                md.elements),
            md.memory),
        md.data)

\* the types of the modules loaded: () -> () and (i32) -> i32
ModuleTypes == <<"t0", "t1">>

ImportChoices == {<<>>, <<0>>, <<2>>}

\* function sections with the number of code bodies: complete ones, a type
\* index equal to and one above types.len(), and a code section one short
FuncChoices ==
    {<<<<>>, 0>>, <<<<0, 1>>, 2>>, <<<<0, 2>>, 2>>, <<<<3>>, 1>>,
     <<<<0, 1>>, 1>>, <<<<0>>, 0>>}

ElementChoices ==
    {<<>>,
     <<ElementSegment(0, None, <<0>>)>>,
     <<ElementSegment(0, Some(0), <<1>>)>>,
     <<ElementSegment(0, Some(0), <<0>>), ElementSegment(0, Some(2), <<1, 0>>)>>}

MemoryChoices ==
    {<<>>, <<Limits(1, None)>>, <<Limits(MaxPages + 1, None)>>,
     <<Limits(0, None), Limits(1, None)>>}

DataChoices ==
    {<<>>,
     <<DataSegment(Some(0), <<5, 6>>)>>,
     <<DataSegment(Some(PAGE_SIZE - 1), <<5, 6>>)>>}

Module(imports, fc, elements, memory, data) ==
    [types |-> ModuleTypes, imports |-> imports, funcs |-> fc[1], codes |-> fc[2],
     elements |-> elements, memory |-> memory, data |-> data]

\* modules with a function section of n entries and as many code bodies
WideModule(imports, n) ==
    Module(imports, <<[i \in 1..n |-> 0], n>>, <<>>, <<>>, <<>>)

Modules ==
    {Module(imports, fc, elements, memory, data) :
        imports \in ImportChoices, fc \in FuncChoices, elements \in ElementChoices,
        memory \in MemoryChoices, data \in DataChoices}
    \cup {WideModule(imports, n) :
            imports \in {<<>>, <<0>>}, n \in {FN_INDEX_MASK, FN_INDEX_MASK + 1}}

InitLoad ==
    /\ inst = NewInstance(MaxFrames, MaxStacks, MaxLabels, MaxPages)
                 @@ [types |-> <<>>, functions |-> <<>>]
    /\ native = <<>>
    /\ phase = "new"
    /\ last = NoCall
    /\ build \in Builds

\* Instance::new returns: `r.init(md)?; Ok(r)`, r being dropped on an error
Loaded(r, md) ==
    /\ inst' = IF r.k = "err" THEN inst ELSE r.s
    /\ phase' = (IF r.k = "ok" THEN "idle" ELSE IF r.k = "err" THEN "failed" ELSE "aborted")
    /\ last' = [NoCall EXCEPT !.op = "create", !.k = r.k, !.args = <<md>>]
    /\ UNCHANGED <<native, build>>

\* Instance::new(bin, ...) for the module md
New(md) == phase = "new" /\ Loaded(InitModule(inst, md), md)

NextLoad == \E md \in Modules : New(md)

SpecLoad == InitLoad /\ [][NextLoad]_vars

(***************************************************************************)
(* Properties of the arithmetic arms (SpecArith).  last.args holds the     *)
(* operand cells: a below, b on top.                                       *)
(***************************************************************************)
\* the operands as the instruction reads them: words of 32 or 64 bits
OperandA == IF last.op \in BinOps32 THEN AsU32(last.args[1]) ELSE last.args[1]

OperandB == IF last.op \in BinOps32 THEN AsU32(last.args[2]) ELSE last.args[2]

DivisorZero == IsZeroLimbs(OperandB)

\* (INT_MIN, -1)
SignedOverflow ==
    OperandA = MinLimbs(Len(OperandA)) /\ OperandB = OnesLimbs(Len(OperandB))

\* the cell left where a was, read at the instruction's width
ResultWord ==
    IF last.op \in BinOps32 THEN AsU32(inst.stack_data[0]) ELSE inst.stack_data[0]

\* a / b truncated toward zero and the remainder of that division, on
\* integers of 32 bits (b # 0, not MinI32 / -1)
TruncDiv32(a, b) ==
    IF b = MinI32 THEN IF a = MinI32 THEN 1 ELSE 0
    ELSE IF a % (IF b < 0 THEN -b ELSE b) # 0 /\ ((a < 0) # (b < 0))
    THEN (a \div b) + 1
    ELSE a \div b

TruncRem32(a, b) ==
    IF b = MinI32 THEN IF a = MinI32 THEN 0 ELSE a
    ELSE IF a < 0 /\ a % (IF b < 0 THEN -b ELSE b) # 0
    THEN (a % (IF b < 0 THEN -b ELSE b)) - (IF b < 0 THEN -b ELSE b)
    ELSE a % (IF b < 0 THEN -b ELSE b)

\* C4: i32.div_s, i32.div_u, i64.div_s and i64.div_u with divisor 0, and the
\* signed forms with (INT_MIN, -1), end in a trap: invoke returns an error and
\* the interpreter does not abort.
C4_DivisionTraps ==
    (/\ phase = "done"
     /\ last.op \in {"I32DIVS", "I32DIVU", "I64DIVS", "I64DIVU"}
     /\ \/ DivisorZero
        \/ last.op \in {"I32DIVS", "I64DIVS"} /\ SignedOverflow)
        => last.k = "err"

\* C5: i32.rem_s and i64.rem_s trap when b = 0; for (INT_MIN, -1) the result
\* is 0 without trap or abort; otherwise the result is the remainder of the
\* truncating division, with the sign of a.
C5_RemainderSigned ==
    (phase = "done" /\ last.op \in {"I32REMS", "I64REMS"})
        => IF DivisorZero THEN last.k = "err"
           ELSE IF SignedOverflow
           THEN last.k = "ok" /\ IsZeroLimbs(ResultWord)
           ELSE /\ last.k = "ok"
                /\ IF last.op = "I32REMS"
                   THEN ResultWord = U32(TruncRem32(AsI32(OperandA), AsI32(OperandB)))
                   ELSE /\ IsNegLimbs(ResultWord) => IsNegLimbs(OperandA)
                        /\ GtLimbs(AbsLimbs(OperandB), AbsLimbs(ResultWord))

\* C6: for every pair (a, b) with b # 0 other than (INT_MIN, -1), i32.div_s
\* replaces the two operands by one value whose low 32 bits are the
\* two's-complement encoding of a / b truncated toward zero.
C6_DivSigned ==
    (/\ phase = "done"
     /\ last.op = "I32DIVS"
     /\ ~DivisorZero
     /\ ~SignedOverflow)
        => /\ last.k = "ok"
           /\ inst.stack_size = last.pre.stack_size - 1
           /\ inst.stack_data[1] = last.pre.stack_data[1]
           /\ ResultWord = U32(TruncDiv32(AsI32(OperandA), AsI32(OperandB)))

\* C6 witness: -3 / 2 has been computed, and gave -1
C6_Witness ==
    /\ phase = "done"
    /\ last.op = "I32DIVS"
    /\ last.k = "ok"
    /\ AsI32(OperandA) = -3
    /\ AsI32(OperandB) = 2
    /\ ResultWord = U32(-1)
    /\ inst.stack_size = 1


(***************************************************************************)
(* Properties of the linear memory, over SpecMem.  In a state reached by   *)
(* an operation, last.op and last.args name it, last.pre is the instance   *)
(* before it and inst the instance after it.                                *)
(***************************************************************************)
MemBefore == last.pre.memory

MemAccessed == last.op \in LoadOps \cup StoreOps

AccessWidth(op) == IF op \in LoadOps THEN LoadBytes(op) ELSE StoreBytes(op)

\* address operand as u64 + static offset, the true sum (five limbs)
EffectiveAddress == AddLimbs(last.args[1], ZeroExt(last.args[2]), 0)

\* ea > i32::MAX or ea + w > len
OutOfBounds(ea, w, len) ==
    ea[5] # 0 \/ GtI32Max(ea) \/ ToInt(ea) > len - w

\* the bytes of two memories agree wherever keep(a) holds
SameBytes(m1, m2, keep(_)) ==
    \A a \in DOMAIN m1.data \cup DOMAIN m2.data :
        keep(a) => MemByte(m1, a) = MemByte(m2, a)

\* C7: a load or store of width w at effective address ea (address operand
\* plus static offset, the true sum) traps when ea > i32::MAX or
\* ea + w > memory length and succeeds otherwise, and a trapping store leaves
\* the memory as it was.
C7_AccessBounds ==
    MemAccessed =>
        /\ last.k = (IF OutOfBounds(EffectiveAddress, AccessWidth(last.op),
                                    MemBefore.len)
                     THEN "err" ELSE "ok")
        /\ (last.k = "err" /\ last.op \in StoreOps) => inst.memory = MemBefore

GrewMemory == last.op = "GROWMEMORY"

\* p + n, the true sum (three limbs)
GrowSum == AddLimbs(U32(MemBefore.pages), AsU32(last.args[1]), 0)

Exceeds(sum, limit) == sum[3] # 0 \/ GtLimbs(SubSeq(sum, 1, 2), U32(limit))

ExceedsDeclared(sum, maximum) ==
    IF maximum = None THEN FALSE ELSE Exceeds(sum, maximum[1])

\* C8: memory.grow n from p pages, on the true sum p + n: beyond a declared
\* maximum 0xFFFFFFFF is pushed and the memory is unchanged; otherwise beyond
\* maxPages the invoke traps and the memory is unchanged; otherwise p is
\* pushed and pages becomes p + n.  No n aborts the process.
C8_GrowOutcome ==
    GrewMemory =>
        IF ExceedsDeclared(GrowSum, MemBefore.maximum)
        THEN last.k = "ok" /\ last.v = ZeroExt(U32Max) /\ inst.memory = MemBefore
        ELSE IF Exceeds(GrowSum, MemBefore.max_pages)
        THEN last.k = "err" /\ inst.memory = MemBefore
        ELSE /\ last.k = "ok"
             /\ last.v = U64(MemBefore.pages)
             /\ inst.memory.pages = ToInt(GrowSum)

\* what memory.size pushes on an instance
SizeReported(s) == Invoke(s, Op0("CURRENTMEMORY"), build)

BelowOld(a) == a < MemBefore.pages * PAGE_SIZE

\* grow(k) went through: p + k pages reported, the old bytes kept, the new
\* ones zero, p returned; and grow(0) changed nothing
GrowKept ==
    /\ last.k = "ok"
    /\ last.v = U64(MemBefore.pages)
    /\ SizeReported(inst).k = "ok"
    /\ Peek(SizeReported(inst).s).v = U64(ToInt(GrowSum))
    /\ inst.memory.len = ToInt(GrowSum) * PAGE_SIZE
    /\ SameBytes(MemBefore, inst.memory, BelowOld)
    /\ \A a \in DOMAIN inst.memory.data : BelowOld(a)
    /\ IsZeroLimbs(last.args[1]) => inst.memory = MemBefore

\* C9 (as amended): from p <= maxPages pages, for k with p + k <= maxPages
\* and p + k within the module's declared maximum if it has one, after
\* memory.grow(k) memory.size reports p + k, the first p * 65536 bytes are
\* the bytes before, the bytes from p * 65536 on are zero; grow(0) returns p
\* and changes nothing.
C9_GrowPreserves ==
    (/\ GrewMemory
     /\ ~Exceeds(GrowSum, MemBefore.max_pages)
     /\ ~ExceedsDeclared(GrowSum, MemBefore.maximum)) => GrowKept

\* C9: a memory with bytes set grew by at least one page
C9_Witness ==
    /\ GrewMemory
    /\ last.k = "ok"
    /\ MemBefore.data # <<>>
    /\ inst.memory.pages > MemBefore.pages
    /\ inst.memory.data = MemBefore.data

\* C9 as stated, for every k with p + k <= maxPages whatever maximum the
\* module declares
C9_GrowPreservesAsStated ==
    (GrewMemory /\ ~Exceeds(GrowSum, MemBefore.max_pages)) => GrowKept

HostWrote == last.op = "write"

WriteOffset == last.args[1]

WriteBytes == last.args[2]

OutsideWrite(a) == a < WriteOffset \/ a >= WriteOffset + Len(WriteBytes)

\* C10: for bytes b and offset o with o + len(b) <= pages * 65536,
\* writeMemory(o, b) followed by readMemory(o, len(b)) returns b, and the
\* write changes no byte outside [o, o + len(b)).
C10_WriteRead ==
    (HostWrote /\ WriteOffset + Len(WriteBytes) <= MemBefore.pages * PAGE_SIZE) =>
        /\ last.k = "ok"
        /\ MemRead(inst.memory, WriteOffset, Len(WriteBytes)).k = "ok"
        /\ MemRead(inst.memory, WriteOffset, Len(WriteBytes)).v = WriteBytes
        /\ SameBytes(MemBefore, inst.memory, OutsideWrite)
        /\ inst.memory.len = MemBefore.len

\* C10: two bytes were written over and next to bytes the data segment set
C10_Witness ==
    /\ HostWrote
    /\ last.k = "ok"
    /\ Len(WriteBytes) = 2
    /\ MemBefore.data # <<>>
    /\ inst.memory.data # MemBefore.data
    /\ \E a \in DOMAIN inst.memory.data : OutsideWrite(a)


(***************************************************************************)
(* Properties of the host calls, over Spec.  last holds the call under way *)
(* or just ended: its name and args, the instance before it (pre), the     *)
(* outcome of the entry frame's push_frame (pushed), whether the call      *)
(* before it trapped (after_trap), and its outcome k and value v once      *)
(* phase is back to "idle".                                                *)
(***************************************************************************)
Executing == last.op = "execute"

Returned == phase = "idle"

ParamCount(name) == Functions[ExportSection[name] + 1].params

\* C1: after an invoke ends in a trap the next invoke of an export starts
\* with count = 0, stackBase = 0 and labelBase = 0, ends with count = 0, and
\* returns what it returns on an instance that never trapped (const7: 7).
C1_TrapResets ==
    (Executing /\ last.after_trap /\ last.name \in DOMAIN ExportSection) =>
        /\ last.pre.count = 0
        /\ last.pre.stack_base = 0
        /\ last.pre.label_base = 0
        /\ (Returned /\ last.k = "ok") => inst.count = 0
        /\ (Returned /\ last.name = "const7" /\ last.args = <<>>) =>
               (last.k = "ok" /\ last.v = <<U64(7)>>)

Unvalidated(name, args) ==
    IF name \in DOMAIN ExportSection THEN Len(args) # ParamCount(name) ELSE TRUE

\* C2: execute(name, args) with an unknown name or with a number of args
\* other than the export's parameter count returns an error, pushes no frame
\* and writes nothing into the value stack; an error of the entry frame's
\* push is returned and the dispatcher is not run.
C2_ExecuteValidates ==
    Executing =>
        /\ Unvalidated(last.name, last.args) =>
               /\ Returned /\ last.k = "err"
               /\ inst.count = last.pre.count
               /\ inst.stack_data = last.pre.stack_data
        /\ last.pushed = "err" => (Returned /\ last.k = "err")

\* C3: a create that returns an Instance has run the module's start function,
\* if it declares one, to completion with its entry frame pushed, and has left
\* the frame counter at 0.
C3_StartSurfaces ==
    (last.op = "create" /\ Returned) =>
        /\ last.start_k \in {"none", "ok"}
        /\ last.pushed \in {"none", "ok"}
        /\ inst.count = 0



(***************************************************************************)
(* The host's memory access, over SpecMem: Memory::read / Memory::write    *)
(* and the JNI layer's get_memory / set_memory.                            *)
(***************************************************************************)
HostAccessed == last.op \in {"read", "write", "get_memory", "set_memory"}

\* the length of the range the host named
AccessLength ==
    IF last.op \in {"write", "set_memory"} THEN Len(last.args[2]) ELSE last.args[2]

\* [off, off + len) lies inside a memory of size bytes
RangeInside(off, len, size) == off >= 0 /\ len >= 0 /\ off <= size - len

\* C11: readMemory / writeMemory (Memory::read, Memory::write, get_memory,
\* set_memory) return an error, abort nothing and change no memory byte
\* whenever [off, off + len) is not entirely inside the memory, negative
\* offsets and lengths and overflowing sums included.
C11_HostBounds ==
    (HostAccessed /\ ~RangeInside(last.args[1], AccessLength, MemBefore.len)) =>
        (last.k = "err" /\ inst.memory = MemBefore)



(***************************************************************************)
(* Properties of control flow (SpecCtl).  last.name is the function the    *)
(* host executes.                                                          *)
(***************************************************************************)
\* run() is about to dispatch an instruction of opcode op
Dispatching(op) ==
    /\ phase = "run"
    /\ inst.label_size # 0
    /\ inst.label_pc < inst.label_body.size
    /\ InsInVec(inst.label_body, inst.label_pc).op = op

\* the br_table of the executing function, as the module declares it
BrTableOf == BrTables[last.name]

\* the index operand: the top cell as a u32
BrIndex == AsU32(inst.stack_data[TopIndex(inst)])

\* the label the index selects: table[i] when i < n, the default otherwise
ChosenLabel ==
    IF GtLimbs(U32(Len(BrTableOf.labels)), BrIndex)
    THEN BrTableOf.labels[ToInt(BrIndex) + 1]
    ELSE BrTableOf.default

\* the step pops the index and branches to label l
BranchesTo(l) ==
    /\ phase' = "run"
    /\ inst' = Branch([inst EXCEPT !.label_pc = @ + 1, !.stack_size = @ - 1], l).s

\* the step ends the host call with an error
Traps == phase' = "idle" /\ last'.k = "err"

\* C12: a br_table with n labels and a default label, executed with index i
\* on the operand stack,
\* branches to table[i] when i < n and to the default label when i >= n; a
\* br_table with an empty table (n = 0) traps.
C12_BrTable ==
    [][(Dispatching("BRTABLE") /\ inst.stack_size # 0) =>
         IF Len(BrTableOf.labels) = 0 THEN Traps ELSE BranchesTo(ChosenLabel)]_vars

\* run() is about to pop the label of a block, loop or if (the first label
\* of a frame is the function's): the construct ends, by running off the end
\* of its body or after a branch that targeted it
BlockEnds ==
    /\ phase = "run"
    /\ inst.label_size > 1
    /\ inst.label_pc >= inst.label_body.size

\* C13: when a block, loop or if entered at operand-stack height h ends, the
\* height is h + 1 if it has a result type and h otherwise.
C13_BlockHeight ==
    BlockEnds => inst.stack_size = inst.stack_pc + (IF inst.arity THEN 1 ELSE 0)

\* the executing function recurses without end: whatever the limits are, its
\* run exceeds maxFrames or maxStacks
ExceedsLimits == last.op = "execute" /\ last.name = "rec"

\* C14: exceeding maxStacks, maxFrames or maxLabels never aborts the host, and
\* the call in which a limit is exceeded returns an error.
C14_LimitsReported ==
    /\ phase # "aborted"
    /\ (ExceedsLimits /\ phase = "idle") => last.k = "err"

\* the table index call_indirect pops: the top cell, a 32-bit value
CallIndex == inst.stack_data[TopIndex(inst)]

IsWord32(c) == c[3] = 0 /\ c[4] = 0

\* table[i], for i below the table's length
TableEntry == inst.table[ToInt(CallIndex) + 1]

\* i is below the table's length and table[i] is a function defined in wasm
Callable ==
    /\ GtLimbs(U64(Len(inst.table)), CallIndex)
    /\ TableEntry # None
    /\ TableEntry[1].kind = "wasm"

\* the step enters a frame of the function f
Invokes(f) ==
    /\ phase' = "run"
    /\ inst'.count = inst.count + 1
    /\ inst'.frame_body = f.body
    /\ inst'.local_size = f.params + LocalLen(f)
    /\ inst'.result_type = f.result

\* C15: call_indirect with the popped table index i, a 32-bit value, traps
\* when i >= the table's length, when table[i] is a hole or when it is a host
\* function; otherwise it invokes table[i].
C15_CallIndirect ==
    [][(Dispatching("CALLINDIRECT") /\ inst.stack_size # 0 /\ IsWord32(CallIndex)) =>
         IF Callable THEN Invokes(TableEntry[1]) ELSE Traps]_vars

(***************************************************************************)
(* Properties of the global arms (SpecGlobal).  last.args holds the index  *)
(* of the instruction, last.pre the instance before it.                    *)
(***************************************************************************)
GlobalDone(op) == phase = "done" /\ last.op = op

\* the index is that of no global
NoGlobal == ~HasEntry(last.pre.globals, last.args[1])

\* the global of the index is mutable
MutableGlobal == last.pre.global_types[ToInt(last.args[1]) + 1].mutable

SameStack ==
    inst.stack_size = last.pre.stack_size /\ inst.stack_data = last.pre.stack_data

\* the top operand was popped and stored in the global of the index, the
\* other globals being left alone
StoredTop ==
    /\ last.k = "ok"
    /\ inst.stack_size = last.pre.stack_size - 1
    /\ inst.globals = [last.pre.globals EXCEPT
                          ![ToInt(last.args[1]) + 1] = last.pre.stack_data[TopIndex(last.pre)]]

\* C16: global.get and global.set with an index that is not below the number
\* of globals trap; global.set on an immutable global traps and leaves every
\* global and the operand stack unchanged; global.set on a mutable global pops
\* the top operand and stores it in that global, leaving the others unchanged.
C16_Globals ==
    /\ (GlobalDone("GETGLOBAL") /\ NoGlobal) => last.k = "err"
    /\ GlobalDone("SETGLOBAL") =>
          IF NoGlobal THEN last.k = "err"
          ELSE IF ~MutableGlobal
          THEN last.k = "err" /\ inst.globals = last.pre.globals /\ SameStack
          ELSE last.pre.stack_size # 0 => StoredTop

\* a global.set changed a mutable global
C16_Witness ==
    /\ GlobalDone("SETGLOBAL")
    /\ last.k = "ok"
    /\ inst.globals # last.pre.globals

(***************************************************************************)
(* Properties of loading (SpecLoad).  last.args holds the module.          *)
(***************************************************************************)
Md == last.args[1]

LoadDone == last.op = "create"

Created == LoadDone /\ phase = "idle" /\ last.k = "ok"

\* C17: every created Instance has at most 0x7FFF functions (imports and
\* defined ones together), and a module that would have more is rejected
\* by create with an error.
C17_FunctionLimit ==
    /\ Created => Len(inst.functions) <= FN_INDEX_MASK
    /\ (LoadDone /\ Len(Md.imports) + Len(Md.funcs) > FN_INDEX_MASK) => last.k = "err"

\* an entry of the function section names a type index that is not below the
\* number of types, or the function at a position has no code body there
BadEntry ==
    \E i \in 1..Len(Md.funcs) : Md.funcs[i] >= Len(Md.types) \/ i > Md.codes

\* C18: create returns an error, and does not abort, whenever an entry of the
\* function section names a type index t >= types.length or the function at
\* position i has no code body at index i.
C18_FunctionEntries == (LoadDone /\ BadEntry) => last.k = "err"

\* member j (from 1) of the element segment e names a function of the module
ValidMember(e, j) == e.members[j] < Len(inst.functions)

\* the value of the offset expression of an element or data segment
SegmentOffset(e) == IF e.offset = None THEN 0 ELSE e.offset[1]

\* the table indices the segments of the module write
SegmentIndices ==
    UNION {SegmentOffset(Md.elements[k])
             ..(SegmentOffset(Md.elements[k]) + Len(Md.elements[k].members) - 1) :
           k \in 1..Len(Md.elements)}

\* table entry index refers to the function f
TableRefers(index, f) ==
    index < Len(inst.table) /\ inst.table[index + 1] = Some(f)

\* the members of segment e are in the table from e's offset on
SegmentInTable(e) ==
    \A j \in 1..Len(e.members) :
        ValidMember(e, j) =>
            TableRefers(SegmentOffset(e) + j - 1, inst.functions[e.members[j] + 1])

\* C19: after create, for each element segment with offset o and members
\* m_0 .. m_(k-1), table[o + j] refers to functions[m_j], and the entries that
\* no segment writes are holes.
C19_Table ==
    Created =>
        /\ \A k \in 1..Len(Md.elements) : SegmentInTable(Md.elements[k])
        /\ \A index \in 0..Len(inst.table) - 1 :
              index \notin SegmentIndices => inst.table[index + 1] = None

\* the pages the module declares: those of its memory, 0 without a memory
DeclaredPages == IF Md.memory = <<>> THEN 0 ELSE Md.memory[1].initial

\* the data segment seg lies inside the declared memory
SegmentFits(seg) ==
    SegmentOffset(seg) + Len(seg.value) <= DeclaredPages * PAGE_SIZE

\* the memory holds the bytes of seg at its offset
SegmentHeld(seg) ==
    GetBytes(inst.memory, SegmentOffset(seg), Len(seg.value)) = seg.value

\* C20: after a create that succeeds the memory has the declared initial
\* number of pages and holds the bytes of every data segment at its offset; a
\* memory whose initial size exceeds the page limit, or a data segment that
\* does not fit, makes create return an error.
C20_MemoryLoaded ==
    /\ Created =>
          /\ inst.memory.pages = DeclaredPages
          /\ \A k \in 1..Len(Md.data) : SegmentHeld(Md.data[k])
    /\ (LoadDone /\ (DeclaredPages > inst.memory.max_pages
                      \/ \E k \in 1..Len(Md.data) : ~SegmentFits(Md.data[k])))
          => last.k = "err"
(***************************************************************************)
(* The shape of the memory                                                 *)
(***************************************************************************)
\* the vector is as long as the pages counted, and they are within the limit
MemoryShape ==
    /\ inst.memory.pages <= inst.memory.max_pages
    /\ inst.memory.len = inst.memory.pages * PAGE_SIZE

\* C21: in every state of an instance (after the module's memory and data
\* sections, and any load, store, memory.grow, memory.size, host write, read
\* or clear) pages <= max_pages and the memory is pages * 65536 bytes long,
\* and no step takes pages down.
C21_MemoryShape ==
    /\ []MemoryShape
    /\ [][inst'.memory.pages >= inst.memory.pages]_vars

\* a memory.grow has raised the page count
C21_Witness ==
    /\ last.op = "GROWMEMORY" /\ last.k = "ok"
    /\ inst.memory.pages > last.pre.memory.pages
    /\ inst.memory.pages = inst.memory.max_pages

(***************************************************************************)
(* Shifts                                                                  *)
(***************************************************************************)
ShiftDone == phase = "done" /\ last.op \in ShiftOps

\* the count of the shift taken modulo the width
CountMod(c, bits) == c[1] % bits

\* what the shift of a by k bits is
ShiftOf(op, a, k) ==
    CASE op \in {"I32SHL", "I64SHL"} -> ShlLimbs(a, k)
      [] op \in {"I32SHRU", "I64SHRU"} -> ShrLimbs(a, k, 0)
      [] op \in {"I32SHRS", "I64SHRS"} -> ShrLimbs(a, k, SignBit(a))

\* C22: i32.shl / shr_s / shr_u shift by the count modulo 32 and the i64
\* shifts by the count modulo 64, whatever the count; no count makes the
\* instruction fail.
C22_Shifts ==
    ShiftDone =>
        /\ last.k = "ok"
        /\ IF last.op \in ShiftOps32
           THEN AsU32(inst.stack_data[0]) =
                    ShiftOf(last.op, AsU32(last.args[1]),
                            CountMod(AsU32(last.args[2]), 32))
           ELSE inst.stack_data[0] =
                    ShiftOf(last.op, last.args[1], CountMod(last.args[2], 64))

(***************************************************************************)
(* Calls (SpecCtl)                                                         *)
(***************************************************************************)
\* the function a call instruction names
Callee == Functions[ToInt(InsInVec(inst.label_body, inst.label_pc).payload) + 1]

\* there is a frame left for the callee, and room for its locals above the
\* caller's operands
CalleeFits ==
    /\ inst.count < inst.max_frames
    /\ TopIndex(inst) + 1 + Callee.params + LocalLen(Callee) <= inst.max_stacks

\* the caller's top p cells, a_1 the deepest, are the callee's locals 0..p-1
ArgumentsPassed ==
    \A i \in 0..(Callee.params - 1) :
        inst'.stack_data[inst'.stack_base + i] =
            inst.stack_data[TopIndex(inst) - Callee.params + 1 + i]

\* the callee's declared locals are zero
LocalsZeroed ==
    \A i \in Callee.params..(Callee.params + LocalLen(Callee) - 1) :
        inst'.stack_data[inst'.stack_base + i] = Zero64

\* C23: a call of a function with p parameters and n locals, the caller
\* having at least p operands, makes the caller's top p cells the callee's
\* locals 0..p-1 in order, zeroes the locals p..p+n-1, starts the callee with
\* an empty operand stack and saves the caller's stack size less p; with
\* fewer than p operands the call traps.
C23_CallArguments ==
    [][(Dispatching("CALL") /\ CalleeFits) =>
         IF inst.stack_size < Callee.params THEN Traps
         ELSE /\ Invokes(Callee)
              /\ ArgumentsPassed
              /\ LocalsZeroed
              /\ inst'.stack_size = 0
              /\ inst'.frame_data[inst.count - 1].stack_size =
                     inst.stack_size - Callee.params]_vars

\* the function the host executes: the caller of every frame at depth 2
Executed == Functions[CtlExports[last.name] + 1]

\* the step pops a callee's frame and goes on in the frame of the executed
\* function, whose call was at the top level of its body
ReturnsToExecuted ==
    /\ phase = "run" /\ phase' = "run"
    /\ inst.count = 2 /\ inst'.count = 1
    /\ inst.frame_data[0].label_size = 1

\* what save_frame and save_label kept of the caller at the call
SavedFrame == inst.frame_data[0]

SavedLabel == inst.label_data[inst.offsets[0].label_base]

\* C24: when a callee's frame is popped and a frame remains, the current
\* frame is the caller's as it was at the call: its stack base, label base,
\* local size, label size and function bits, the body and result type of its
\* own function, its current label with its body, pc after the call, stackPc,
\* arity and isLoop; its stack size is the one before the call less the
\* callee's parameters (the callee's result, if any, being pushed on it).
C24_FrameRestored ==
    [][ReturnsToExecuted =>
         /\ inst'.stack_base = inst.offsets[0].stack_base
         /\ inst'.label_base = inst.offsets[0].label_base
         /\ inst'.local_size = SavedFrame.local_size
         /\ inst'.label_size = SavedFrame.label_size
         /\ inst'.func_bits = SavedFrame.func_bits
         /\ inst'.stack_size =
                SavedFrame.stack_size + (IF inst.result_type = None THEN 0 ELSE 1)
         /\ inst'.label_pc = SavedLabel.label_pc
         /\ inst'.stack_pc = SavedLabel.stack_pc
         /\ inst'.arity = SavedLabel.arity
         /\ inst'.is_loop = SavedLabel.is_loop
         /\ inst'.frame_body = Executed.body
         /\ inst'.result_type = Executed.result
         /\ inst'.label_body = Executed.body]_vars

(***************************************************************************)
(* Labels (SpecCtl)                                                        *)
(***************************************************************************)
\* run() finds the current label at its end and pops it, the label of the
\* function's body being the one that encloses it
BlockPopped ==
    /\ phase = "run" /\ phase' = "run"
    /\ inst.count = 1 /\ inst.label_size = 2
    /\ inst.label_pc >= inst.label_body.size

\* what save_label kept of the enclosing label when the block was pushed
EnclosingLabel == inst.label_data[inst.label_base + inst.label_size - 2]

\* C25: after pop_label leaves label_size > 0 the current label is the
\* enclosing label as it was when the popped label was pushed: its body (for
\* the outermost label, the body of the frame), label_pc, stack_pc, arity
\* and is_loop.
C25_LabelRestored ==
    [][BlockPopped =>
         /\ inst'.label_size = 1
         /\ inst'.label_pc = EnclosingLabel.label_pc
         /\ inst'.stack_pc = EnclosingLabel.stack_pc
         /\ inst'.arity = EnclosingLabel.arity
         /\ inst'.is_loop = EnclosingLabel.is_loop
         /\ inst'.label_body = inst.frame_body]_vars

\* the label index of the br_if being dispatched, and its condition
BrLabel == ToInt(InsInVec(inst.label_body, inst.label_pc).payload)

BrCondition == inst.stack_data[TopIndex(inst)]

\* the target of br l is the current label (l = 0) or the outermost label of
\* the executed frame (l = label_size - 1), or there is no such label
BranchTaken ==
    /\ Dispatching("BRIF") /\ inst.count = 1
    /\ inst.stack_size # 0 /\ ~IsZeroLimbs(BrCondition)
    /\ (BrLabel = 0 \/ BrLabel >= inst.label_size - 1)

\* the target label: the registers for l = 0, what save_label kept of the
\* outermost label otherwise, its body being the body of the frame
TargetLabel ==
    IF BrLabel = 0
    THEN [body |-> inst.label_body, arity |-> inst.arity,
          is_loop |-> inst.is_loop, stack_pc |-> inst.stack_pc]
    ELSE [body |-> inst.frame_body, arity |-> inst.label_data[inst.label_base].arity,
          is_loop |-> inst.label_data[inst.label_base].is_loop,
          stack_pc |-> inst.label_data[inst.label_base].stack_pc]

\* the operand stack is cut down to the target's stack_pc, the value that was
\* on top (below the condition) being pushed back when the target has arity
StackUnwound ==
    IF TargetLabel.arity
    THEN /\ inst'.stack_size = TargetLabel.stack_pc + 1
         /\ inst'.stack_data[TopIndex(inst')] = inst.stack_data[TopIndex(inst) - 1]
    ELSE inst'.stack_size = TargetLabel.stack_pc

\* C26: br l with label_size = n > l makes the l-th enclosing label current:
\* label_size = n - l, the body, arity, is_loop and stack_pc of the target,
\* the operand stack cut to the target's stack_pc with the top value pushed
\* back when the target has arity, and label_pc = 0 for a loop and the size
\* of the target's body otherwise; br l with l >= n traps.
C26_Branch ==
    [][BranchTaken =>
         IF BrLabel >= inst.label_size THEN Traps
         ELSE /\ phase' = "run"
              /\ inst'.label_size = inst.label_size - BrLabel
              /\ inst'.label_body = TargetLabel.body
              /\ inst'.arity = TargetLabel.arity
              /\ inst'.is_loop = TargetLabel.is_loop
              /\ inst'.stack_pc = TargetLabel.stack_pc
              /\ StackUnwound
              /\ inst'.label_pc =
                     (IF TargetLabel.is_loop THEN 0 ELSE TargetLabel.body.size)]_vars

(***************************************************************************)
(* The index of br_table (SpecBranch)                                      *)
(***************************************************************************)
BrTableDone == phase = "done" /\ last.op = "BRTABLE"

\* the label the br_table of brt chooses for the index that was on top
TableLabel ==
    IF GtLimbs(U32(Len(BrTables.brt.labels)),
               AsU32(last.pre.stack_data[TopIndex(last.pre)]))
    THEN BrTables.brt.labels[ToInt(AsU32(last.pre.stack_data[TopIndex(last.pre)])) + 1]
    ELSE BrTables.brt.default

\* the instance is what branch(l) makes of s
BranchedFrom(s) ==
    /\ last.k = Branch(s, TableLabel).k
    /\ inst = Branch(s, TableLabel).s

\* C27 as stated: br_table only peeks at its index and does not pop it, the
\* index being still on the operand stack when the branch is applied.
C27_IndexKept == BrTableDone => BranchedFrom(last.pre)

\* C27: br_table reads its index with peek and drops it before it branches:
\* the branch is applied to the operand stack without the index, so that the
\* value carried to a target with arity is the cell below the index.
C27_IndexDropped ==
    BrTableDone => BranchedFrom([last.pre EXCEPT !.stack_size = @ - 1])

\* a branch to a label with arity has carried the value below the index
C27_Witness ==
    /\ BrTableDone /\ last.k = "ok"
    /\ last.pre.arity /\ TableLabel = 0 /\ last.pre.stack_size = 2
    /\ inst.stack_size = 1
    /\ inst.stack_data[0] = last.pre.stack_data[0]
    /\ inst.stack_data[0] # last.pre.stack_data[1]

(***************************************************************************)
(* Straight-line steps (SpecLine)                                          *)
(***************************************************************************)
\* the instructions that do not alter the control flow
PlainOps ==
    {"NOP", "DROP", "SELECT", "GETLOCAL", "SETLOCAL", "TEELOCAL", "GETGLOBAL",
     "SETGLOBAL", "CURRENTMEMORY", "GROWMEMORY", "I32CONST", "I64CONST",
     "F32CONST", "F64CONST"}
        \cup LoadOps \cup StoreOps \cup BinOps \cup ShiftOps

\* the instruction run() fetches
Fetched == InsInVec(inst.label_body, inst.label_pc)

\* an if without else whose condition is 0
IfSkipped ==
    /\ Fetched.op = "IF" /\ IsNullVec(Branch1(Fetched))
    /\ inst.stack_size # 0 /\ IsZeroLimbs(inst.stack_data[TopIndex(inst)])

\* run() dispatches such an instruction and invoke returns Ok
PlainStep ==
    /\ phase = "run" /\ inst.label_size # 0
    /\ inst.label_pc < inst.label_body.size
    /\ (Fetched.op \in PlainOps \/ IfSkipped)
    /\ phase' = "run" /\ last' = last

\* C28: one dispatcher step of an instruction that does not alter the
\* control flow (parametric, local and global access, memory access,
\* constants, numeric instructions, an if without else on condition 0), the
\* instruction succeeding, adds exactly 1 to label_pc and leaves label_size,
\* label_base, stack_base, the frame counter and the label body unchanged.
C28_PlainStep ==
    [][PlainStep =>
         /\ inst'.label_pc = inst.label_pc + 1
         /\ inst'.label_size = inst.label_size
         /\ inst'.label_base = inst.label_base
         /\ inst'.stack_base = inst.stack_base
         /\ inst'.count = inst.count
         /\ inst'.label_body = inst.label_body]_vars

\* line has been run to its end, the if skipped
C28_Witness ==
    /\ phase = "run" /\ last.name = "line"
    /\ inst.label_size = 1 /\ inst.label_body = Functions[16].body
    /\ inst.label_pc = inst.label_body.size
    /\ inst.memory.pages = 2

(***************************************************************************)
(* Limits of the frames (SpecCtl)                                          *)
(***************************************************************************)
\* a frame's cells end within stack_data and its labels within label_data
FrameWithin(stack_base, local_size, stack_size, label_base, label_size) ==
    /\ stack_base + local_size + stack_size <= inst.max_stacks
    /\ label_base + label_size <= inst.max_labels

\* the frame save_frame kept at index i
SavedWithin(i) ==
    FrameWithin(inst.offsets[i].stack_base, inst.frame_data[i].local_size,
                inst.frame_data[i].stack_size, inst.offsets[i].label_base,
                inst.frame_data[i].label_size)

\* C29: in every state with count > 0 (the host not aborted), count <=
\* max_frames, and for the current frame and every saved frame stack_base +
\* local_size + stack_size <= max_stacks and label_base + label_size <=
\* max_labels.
C29_FramesWithin ==
    (phase # "aborted" /\ inst.count > 0) =>
        /\ inst.count <= inst.max_frames
        /\ FrameWithin(inst.stack_base, inst.local_size, inst.stack_size,
                       inst.label_base, inst.label_size)
        /\ \A i \in 0..(inst.count - 2) : SavedWithin(i)

(***************************************************************************)
(* The upper half of i32 cells (SpecArith)                                 *)
(***************************************************************************)
\* an i32 division or remainder has left its result on the operand stack
Arith32Done == phase = "done" /\ last.op \in BinOps32 /\ last.k = "ok"

\* C30: the cell an i32-typed instruction leaves on the operand stack has
\* its upper 32 bits zero, also when the result is negative (i32.div_s,
\* i32.rem_s).
C30_UpperZero == Arith32Done => IsWord32(inst.stack_data[0])

(***************************************************************************)
(* Termination (SpecFlat)                                                   *)
(***************************************************************************)
\* the pool positions of the bodies of these functions
InsPositions == (16..36) \cup (BrTableAt.brt..(BrTableAt.brtempty + 4))

\* run() is about to fetch the instruction at pool position q
Fetching(q) ==
    /\ phase = "run" /\ last.name \in LoopFree
    /\ inst.label_size # 0 /\ inst.label_pc < inst.label_body.size
    /\ inst.label_body.offset + inst.label_pc = q

\* the run of a function without loop and call ends
RunEnds == (phase = "run" /\ last.name \in LoopFree) ~> (phase # "run")

\* once run() has gone past the instruction at q it never fetches it again
OnceOnly == \A q \in InsPositions : [](Fetching(q) => [](~Fetching(q) => []~Fetching(q)))

\* C31: the run of a function body without loop, call and call_indirect
\* terminates (the entry label is popped, or a return or a trap ends the
\* run), and every instruction of every entered body is executed at most
\* once.
C31_Terminates == RunEnds /\ OnceOnly

(***************************************************************************)
(* The decoder of the instruction pool (src/rust/src/types/ins_pool.rs).   *)
(* A decoder state is the pool's data and the cursor's position in the     *)
(* bytes.                                                                  *)
(***************************************************************************)
\* Vec<u64>: the slots 0..len - 1, kept in chunks that are full but for the
\* last one, so that a push does not copy the slots before it
Chunk == Base \div 256

VecNew == [len |-> 0, chunks |-> <<>>]

VecLen(d) == d.len

\* data[i]
VecGet(d, i) == d.chunks[(i \div Chunk) + 1][(i % Chunk) + 1]

\* data.push(w)
VecPush(d, w) ==
    IF d.len % Chunk = 0
    THEN [len |-> d.len + 1, chunks |-> Append(d.chunks, <<w>>)]
    ELSE [len |-> d.len + 1,
          chunks |-> [d.chunks EXCEPT ![Len(d.chunks)] = Append(@, w)]]

\* data[i] = w
VecSet(d, i, w) == [d EXCEPT !.chunks[(i \div Chunk) + 1][(i % Chunk) + 1] = w]

\* parity_wasm::elements::opcodes
Opcodes ==
    ("UNREACHABLE" :> 0) @@ ("NOP" :> 1) @@ ("BLOCK" :> 2) @@ ("LOOP" :> 3) @@
    ("IF" :> 4) @@ ("ELSE" :> 5) @@ ("END" :> 11) @@ ("BR" :> 12) @@
    ("BRIF" :> 13) @@ ("BRTABLE" :> 14) @@ ("RETURN" :> 15) @@ ("CALL" :> 16) @@
    ("CALLINDIRECT" :> 17) @@ ("DROP" :> 26) @@ ("SELECT" :> 27) @@ ("GETLOCAL" :> 32) @@
    ("SETLOCAL" :> 33) @@ ("TEELOCAL" :> 34) @@ ("GETGLOBAL" :> 35) @@ ("SETGLOBAL" :> 36) @@
    ("I32LOAD" :> 40) @@ ("CURRENTMEMORY" :> 63) @@ ("GROWMEMORY" :> 64) @@ ("I32CONST" :> 65) @@
    ("I64CONST" :> 66) @@ ("I32EQZ" :> 69) @@ ("I32ADD" :> 106)

\* the name the dispatcher knows an opcode byte by
OpName(b) == CHOOSE n \in DOMAIN Opcodes : Opcodes[n] = b

\* InsPool::new: a pool that holds the null pointer
NewPool == VecPush(VecNew, 0)

Reader(k, data, pos, v) == [k |-> k, data |-> data, pos |-> pos, v |-> v]

\* Cursor::peek: the byte at the cursor, or "unexpected eof"
CursorPeek(bytes, pos) == IF pos < Len(bytes) THEN Some(bytes[pos + 1]) ELSE None

\* VarUint32 / VarInt32 / VarInt64 ::deserialize: LEB128, at most left bytes;
\* the last byte of a signed number carries the sign in bit 6
LebMore(r, low) == IF r.k = "err" THEN r ELSE [r EXCEPT !.v = low + 128 * @]

LebLast(b, signed) == IF signed /\ b >= 64 THEN b - 128 ELSE b

RECURSIVE Leb(_, _, _, _)
Leb(bytes, pos, left, signed) ==
    IF pos >= Len(bytes) \/ left = 0 THEN [k |-> "err", pos |-> pos, v |-> 0]
    ELSE IF bytes[pos + 1] < 128
    THEN [k |-> "ok", pos |-> pos + 1, v |-> LebLast(bytes[pos + 1], signed)]
    ELSE LebMore(Leb(bytes, pos + 1, left - 1, signed), bytes[pos + 1] - 128)

\* cursor.var_u32(), var_i32(), var_i64()
VarU32(bytes, pos) == Leb(bytes, pos, 5, FALSE)

VarI32(bytes, pos) == Leb(bytes, pos, 5, TRUE)

VarI64(bytes, pos) == Leb(bytes, pos, 10, TRUE)

\* BlockType::deserialize
BlockTypeOf(b) ==
    CASE b = 64 -> <<None>>
      [] b = 127 -> <<Some("I32")>>
      [] b = 126 -> <<Some("I64")>>
      [] b = 125 -> <<Some("F32")>>
      [] b = 124 -> <<Some("F64")>>
      [] OTHER -> <<>>

\* InsBits::no_result(op)
NoResult(b) == Ins(OpName(b), None, 0, U32(0))

\* the bitwise or of two 16-bit limbs, bit by bit unless one of them is 0
RECURSIVE OrBits(_, _, _)
OrBits(a, b, n) ==
    IF a = 0 THEN b
    ELSE IF b = 0 \/ n = 0 THEN a
    ELSE (IF a % 2 = 1 \/ b % 2 = 1 THEN 1 ELSE 0) + 2 * OrBits(a \div 2, b \div 2, n - 1)

\* a cell of a linked list: the slot of the instruction in the low 32 bits,
\* the slot of the next cell in the bits above
LinkedValue(cell) == (cell[2] % HalfBase) * Base + cell[1]

LinkedNext(cell) == (cell[4] % HalfBase) * Base + cell[3]

\* data[prev] | ((r as u64) << 32)
LinkTo(cell, r) ==
    <<cell[1], cell[2], OrBits(cell[3], r % Base, 16), OrBits(cell[4], r \div Base, 16)>>

\* alloc_ins: store an instruction; its slot is the length before the push
AllocIns(data, ins) == VecPush(data, ins)

\* alloc_linked: a list of one cell
AllocLinked(data, value) == VecPush(data, ZeroExt(U32(value)))

\* a push_linked that forgets to link the new cell from the cell at prev
PushLinkedApart(data, prev, value) == VecPush(data, ZeroExt(U32(value)))

\* push_linked: a new cell, linked from the cell at prev
PushLinked(data, prev, value) ==
    VecSet(VecPush(data, ZeroExt(U32(value))), prev,
           LinkTo(VecGet(data, prev), VecLen(data)))

\* add_body_off: the payload is the slot the next push takes
AddBodyOff(data, ins) == [ins EXCEPT !.payload = U32(VecLen(data))]

\* one turn of span_linked's loop: copy the instruction the cell points at
SpanOne(st) ==
    IF st.done THEN st
    ELSE [data |-> VecPush(st.data, VecGet(st.data, LinkedValue(st.cur))),
          cnt |-> st.cnt + 1,
          done |-> LinkedNext(st.cur) = 0,
          cur |-> IF LinkedNext(st.cur) = 0 THEN st.cur
                  ELSE VecGet(st.data, LinkedNext(st.cur))]

\* the loop of span_linked, taken at most n times: the first half of the
\* turns, then the others (a value that is used several times is bound
\* first, here and below, so that it is computed once)
RECURSIVE SpanLoop(_, _)
SpanLoop(st, n) ==
    IF n <= 1 THEN SpanOne(st)
    ELSE CHOOSE r \in {SpanLoop(x, k) :
                        x \in {SpanLoop(st, n \div 2)}, k \in {n - (n \div 2)}} : TRUE

SpanResult(st, start, pos) ==
    IF st.cnt > Base - 1 THEN Reader("err", st.data, pos, NullVec)
    ELSE Reader("ok", st.data, pos, InsVec(start, st.cnt))

\* span_linked: the list from head as a contiguous InsVec at the pool's end
SpanLinked(data, head, pos) ==
    CHOOSE r \in {SpanResult(st, VecLen(data), pos) :
                   st \in {SpanLoop([data |-> data, cnt |-> 0, done |-> FALSE,
                                     cur |-> VecGet(data, head)], VecLen(data))}} : TRUE

RECURSIVE ReadUtil(_, _, _, _)

\* the end of read_ctl's BLOCK | LOOP | IF arm: skip the end byte, point the
\* payload at the next slot and push the two branches there
BlockDone(data, pos, bits, branch_0, branch_1) ==
    Reader("ok", VecPush(VecPush(data, branch_0), branch_1), pos + 1,
           AddBodyOff(data, bits))

Branch1Read(branch_0, r, bits) ==
    IF r.k = "err" THEN r ELSE BlockDone(r.data, r.pos, bits, branch_0, r.v)

\* after branch_0: an else byte is skipped and branch_1 read up to the end
Branch0Read(r, bytes, bits) ==
    IF r.k = "err" THEN r
    ELSE IF bytes[r.pos + 1] = Opcodes["ELSE"]
    THEN CHOOSE b \in {Branch1Read(r.v, r1, bits) :
                        r1 \in {ReadUtil(r.data, bytes, r.pos + 1, {Opcodes["END"]})}} : TRUE
    ELSE BlockDone(r.data, r.pos, bits, r.v, NullVec)

\* the BLOCK | LOOP | IF arm of read_ctl, the cursor being at the block type
ReadBlock(data, bytes, pos, bits) ==
    IF pos >= Len(bytes) \/ BlockTypeOf(bytes[pos + 1]) = <<>>
    THEN Reader("err", data, pos, bits)
    ELSE CHOOSE b \in {Branch0Read(r, bytes, [bits EXCEPT !.bt = BlockTypeOf(bytes[pos + 1])[1]]) :
                        r \in {ReadUtil(data, bytes, pos + 1,
                                        {Opcodes["END"], Opcodes["ELSE"]})}} : TRUE

\* an instruction with one index or constant: add_payload(n).add_operand_size(osz)
WithPayload(data, bits, n, osz) ==
    IF n.k = "err" THEN Reader("err", data, n.pos, bits)
    ELSE Reader("ok", data, n.pos, [bits EXCEPT !.payload = U32(n.v), !.osz = osz])

\* read_ctl, without its BRTABLE and CALLINDIRECT arms
ReadCtl(data, bytes, pos) ==
    CASE bytes[pos + 1] \in {Opcodes["UNREACHABLE"], Opcodes["NOP"], Opcodes["RETURN"]} ->
           Reader("ok", data, pos + 1, NoResult(bytes[pos + 1]))
      [] bytes[pos + 1] \in {Opcodes["BR"], Opcodes["BRIF"], Opcodes["CALL"]} ->
           WithPayload(data, NoResult(bytes[pos + 1]), VarU32(bytes, pos + 1), 1)
      [] bytes[pos + 1] \in {Opcodes["BLOCK"], Opcodes["LOOP"], Opcodes["IF"]} ->
           ReadBlock(data, bytes, pos + 1, NoResult(bytes[pos + 1]))
      [] OTHER -> Reader("err", data, pos + 1, NoResult(Opcodes["UNREACHABLE"]))

\* read_var_ins
ReadVarIns(data, bytes, pos) ==
    WithPayload(data, NoResult(bytes[pos + 1]), VarU32(bytes, pos + 1), 0)

\* read_mem_ins: memory.size and memory.grow end in a zero byte, the others
\* have an alignment and an offset, which is the payload
MemOffset(data, bits, bytes, align) ==
    IF align.k = "err" THEN Reader("err", data, align.pos, bits)
    ELSE WithPayload(data, bits, VarU32(bytes, align.pos), 1)

ReadMemIns(data, bytes, pos) ==
    IF bytes[pos + 1] \in {Opcodes["CURRENTMEMORY"], Opcodes["GROWMEMORY"]}
    THEN IF pos + 1 < Len(bytes) /\ bytes[pos + 2] = 0
         THEN Reader("ok", data, pos + 2, NoResult(bytes[pos + 1]))
         ELSE Reader("err", data, pos + 1, NoResult(bytes[pos + 1]))
    ELSE MemOffset(data, NoResult(bytes[pos + 1]), bytes, VarU32(bytes, pos + 1))

\* the I64CONST arm of read_num_ins: the constant takes the next slot
WithOperand(data, bits, n) ==
    IF n.k = "err" THEN Reader("err", data, n.pos, bits)
    ELSE Reader("ok", VecPush(data, U64(n.v)), n.pos,
                [AddBodyOff(data, bits) EXCEPT !.osz = 1])

\* read_num_ins, without the float constants
ReadNumIns(data, bytes, pos) ==
    CASE bytes[pos + 1] = Opcodes["I32CONST"] ->
           WithPayload(data, NoResult(bytes[pos + 1]), VarI32(bytes, pos + 1), 1)
      [] bytes[pos + 1] = Opcodes["I64CONST"] ->
           WithOperand(data, NoResult(bytes[pos + 1]), VarI64(bytes, pos + 1))
      [] OTHER -> Reader("ok", data, pos + 1, NoResult(bytes[pos + 1]))

\* read_ins: the cursor is at an opcode
ReadIns(data, bytes, pos) ==
    CASE bytes[pos + 1] <= Opcodes["CALLINDIRECT"] -> ReadCtl(data, bytes, pos)
      [] bytes[pos + 1] \in Opcodes["DROP"]..Opcodes["SELECT"] ->
           Reader("ok", data, pos + 1, NoResult(bytes[pos + 1]))
      [] bytes[pos + 1] \in Opcodes["GETLOCAL"]..Opcodes["SETGLOBAL"] ->
           ReadVarIns(data, bytes, pos)
      [] bytes[pos + 1] \in Opcodes["I32LOAD"]..Opcodes["GROWMEMORY"] ->
           ReadMemIns(data, bytes, pos)
      [] OTHER -> ReadNumIns(data, bytes, pos)

\* read_util's match head: the instruction is stored, and a list is begun
\* with it or the list's last cell is linked to a new cell for it
LinkedAt(st, data, ptr, pos) ==
    IF st.head = 0
    THEN [st EXCEPT !.data = AllocLinked(data, ptr), !.pos = pos,
                    !.head = VecLen(data), !.cur = VecLen(data)]
    ELSE [st EXCEPT !.data = PushLinked(data, st.cur, ptr), !.pos = pos,
                    !.cur = VecLen(data)]

Linked(st, r) ==
    IF r.k = "err" THEN [st EXCEPT !.k = "err", !.data = r.data, !.pos = r.pos]
    ELSE CHOOSE t \in {LinkedAt(st, d, VecLen(r.data), r.pos) :
                        d \in {AllocIns(r.data, r.v)}} : TRUE

Spanned(st, r) == [st EXCEPT !.k = r.k, !.data = r.data, !.v = r.v]

\* one turn of read_util's loop; st holds the cursor's bytes and the
\* terminators beside what the loop changes
ReadOne(st) ==
    IF st.k # "loop" THEN st
    ELSE IF CursorPeek(st.bytes, st.pos) = None THEN [st EXCEPT !.k = "err"]
    ELSE IF st.bytes[st.pos + 1] \in st.end
    THEN IF st.head = 0 THEN [st EXCEPT !.k = "ok", !.v = NullVec]
         ELSE [st EXCEPT !.k = "span"]
    ELSE CHOOSE t \in {Linked(st, r) : r \in {ReadIns(st.data, st.bytes, st.pos)}} : TRUE

\* the loop of read_util, taken at most n times
RECURSIVE ReadLoop(_, _)
ReadLoop(st, n) ==
    IF n <= 1 THEN ReadOne(st)
    ELSE CHOOSE r \in {ReadLoop(x, k) :
                        x \in {ReadLoop(st, n \div 2)}, k \in {n - (n \div 2)}} : TRUE

\* the return from the loop at a terminator with a list read: span_linked(head)
ReadSpan(st) ==
    IF st.k # "span" THEN st
    ELSE CHOOSE t \in {Spanned(st, r) :
                        r \in {SpanLinked(st.data, st.head, st.pos)}} : TRUE

ReadResult(st) == [k |-> st.k, data |-> st.data, pos |-> st.pos, v |-> st.v]

\* read_util: the instructions up to a byte of end, which stays unread; every
\* turn of the loop reads a byte at least
ReadUtil(data, bytes, pos, end) ==
    CHOOSE r \in {ReadResult(t) : t \in {ReadSpan(st) :
                   st \in {ReadLoop([k |-> "loop", data |-> data, pos |-> pos,
                                     head |-> 0, cur |-> 0, v |-> NullVec,
                                     bytes |-> bytes, end |-> end],
                                    Len(bytes) - pos + 1)}}} : TRUE

\* cursor.next()? after read_util: the end byte is there
SkipEnd(r) == IF r.k = "err" THEN r ELSE [r EXCEPT !.pos = @ + 1]

\* read_expr
ReadExpr(data, bytes, pos) ==
    CHOOSE e \in {SkipEnd(r) : r \in {ReadUtil(data, bytes, pos, {Opcodes["END"]})}} : TRUE

(***************************************************************************)
(* The decoder on its own: the pool as the instance, an expression of the  *)
(* code section given as its instructions, serialized to bytes (as         *)
(* parity_wasm's Serialize does for the test of ins_pool.rs) and read back *)
(* by read_expr or read_util.                                              *)
(***************************************************************************)
\* the deepest nesting of blocks in the expressions
MaxNest == 2

\* an instruction of an expression: its immediate, or its block type and
\* bodies (els: it has an else)
Plain(op) ==
    [op |-> op, imm |-> 0, bt |-> None, b0 |-> <<>>, b1 |-> <<>>, els |-> FALSE]

Const(op, n) == [Plain(op) EXCEPT !.imm = n]

Block(op, bt, b0) == [Plain(op) EXCEPT !.bt = bt, !.b0 = b0]

IfElse(bt, b0, b1) == [Block("IF", bt, b0) EXCEPT !.b1 = b1, !.els = TRUE]

\* LEB128 of an immediate
RECURSIVE LebBytes(_, _)
LebBytes(n, signed) ==
    IF (signed /\ n >= -64 /\ n < 64) \/ (~signed /\ n < 128) THEN <<n % 128>>
    ELSE <<128 + (n % 128)>> \o LebBytes(n \div 128, signed)

BlockByte(bt) ==
    CASE bt = None -> 64
      [] bt = Some("I32") -> 127
      [] bt = Some("I64") -> 126

RECURSIVE Serialize(_, _, _)

\* the bytes of one instruction
SerializeIns(t) ==
    CASE t.op \in {"BLOCK", "LOOP", "IF"} ->
           <<Opcodes[t.op], BlockByte(t.bt)>> \o Serialize(t.b0, 1, Len(t.b0))
           \o (IF t.els THEN <<Opcodes["ELSE"]>> \o Serialize(t.b1, 1, Len(t.b1))
               ELSE <<>>)
           \o <<Opcodes["END"]>>
      [] t.op \in {"BR", "BRIF", "CALL", "GETLOCAL"} ->
           <<Opcodes[t.op]>> \o LebBytes(t.imm, FALSE)
      [] t.op \in {"I32CONST", "I64CONST"} -> <<Opcodes[t.op]>> \o LebBytes(t.imm, TRUE)
      [] t.op = "I32LOAD" -> <<Opcodes[t.op], 2>> \o LebBytes(t.imm, FALSE)
      [] t.op \in {"CURRENTMEMORY", "GROWMEMORY"} -> <<Opcodes[t.op], 0>>
      [] OTHER -> <<Opcodes[t.op]>>

\* the bytes of the instructions body[lo..hi]
Serialize(body, lo, hi) ==
    IF lo > hi THEN <<>>
    ELSE IF lo = hi THEN SerializeIns(body[lo])
    ELSE Serialize(body, lo, (lo + hi) \div 2) \o Serialize(body, (lo + hi) \div 2 + 1, hi)

\* the expressions: inner bodies, structured instructions of depth d, and
\* the bodies read, of at most two instructions or of u16::MAX and
\* u16::MAX + 1 instructions
InnerLeaves == {<<>>, <<Plain("NOP")>>, <<Const("I64CONST", 5), Plain("NOP")>>}

RECURSIVE Structured(_)
Structured(d) ==
    IF d = 0 THEN {}
    ELSE {Block("LOOP", None, <<>>), Block("IF", None, <<Plain("NOP")>>)}
         \cup {Block("BLOCK", None, b) : b \in InnerLeaves}
         \cup {IfElse(Some("I32"), <<Plain("NOP")>>, b) : b \in InnerLeaves}
         \cup {Block("BLOCK", None, <<s>>) : s \in Structured(d - 1)}
         \cup {IfElse(Some("I32"), <<Plain("NOP")>>, <<s>>) : s \in Structured(d - 1)}

Leaves ==
    {Plain("NOP"), Plain("DROP"), Plain("I32ADD"), Const("I32CONST", -1),
     Const("I64CONST", 5), Const("BR", 128), Const("GETLOCAL", 1),
     Const("I32LOAD", 4), Plain("GROWMEMORY")}

Items == Leaves \cup Structured(MaxNest)

ShortBodies ==
    {<<>>} \cup {<<a>> : a \in Items} \cup {<<a, b>> : a \in Items, b \in Leaves}

LongBodies == {SubSeq([i \in 1..k |-> Plain("NOP")], 1, k) : k \in {Base - 1, Base}}

\* the pool before: new, or holding an expression read earlier
Pools == {NewPool, ReadExpr(NewPool, <<Opcodes["NOP"], Opcodes["END"]>>, 0).data}

InitRead ==
    /\ inst \in Pools
    /\ native = <<>>
    /\ phase = "new"
    /\ last = NoCall
    /\ build = "release"

Read(r, op, body) ==
    /\ inst' = r.data
    /\ phase' = "done"
    /\ last' = [NoCall EXCEPT !.op = op, !.k = r.k, !.args = body, !.v = r.v,
                              !.n = r.pos, !.pre = inst]
    /\ UNCHANGED <<native, build>>

\* pool.read_expr(cursor) on the bytes of body and an end byte
ReadExprOf(body) ==
    /\ phase = "new"
    /\ \E bytes \in {Serialize(body, 1, Len(body)) \o <<Opcodes["END"]>>} :
          \E r \in {ReadExpr(inst, bytes, 0)} : Read(r, "read_expr", body)

\* pool.read_util(cursor, [END, ELSE]) on the bytes of body and a terminator
ReadUtilOf(body, term) ==
    /\ phase = "new"
    /\ \E bytes \in {Serialize(body, 1, Len(body)) \o <<term>>} :
          \E r \in {ReadUtil(inst, bytes, 0, {Opcodes["END"], Opcodes["ELSE"]})} :
             Read(r, "read_util", body)

NextRead ==
    \/ \E body \in ShortBodies \cup LongBodies : ReadExprOf(body)
    \/ \E body \in ShortBodies, term \in {Opcodes["END"], Opcodes["ELSE"]} :
          ReadUtilOf(body, term)

SpecRead == InitRead /\ [][NextRead]_vars

(***************************************************************************)
(* Properties of the decoder (SpecRead)                                    *)
(***************************************************************************)
RECURSIVE MatchBody(_, _, _)

\* the slot w holds the instruction t: its opcode and immediate, and for a
\* block its type and, at the payload, the vectors of its two bodies
MatchIns(data, w, t) ==
    /\ w.op = t.op
    /\ CASE t.op \in {"BLOCK", "LOOP", "IF"} ->
              /\ w.bt = t.bt
              /\ MatchBody(data, VecGet(data, ToInt(w.payload)), t.b0)
              /\ MatchBody(data, VecGet(data, ToInt(w.payload) + 1), t.b1)
         [] t.op = "I64CONST" ->
              w.osz = 1 /\ VecGet(data, ToInt(w.payload)) = U64(t.imm)
         [] t.op \in {"I32CONST", "BR", "GETLOCAL", "I32LOAD"} -> w.payload = U32(t.imm)
         [] OTHER -> w = Op0(t.op)

\* the vector vec holds the instructions of body, in their order; the
\* vector of no instruction is the null vector
MatchBody(data, vec, body) ==
    /\ vec.size = Len(body)
    /\ Len(body) = 0 => vec = NullVec
    /\ \A i \in 1..Len(body) : MatchIns(data, VecGet(data, vec.offset + i - 1), body[i])

\* the bytes of the instructions read, without the terminator
StreamLen == Len(Serialize(last.args, 1, Len(last.args)))

\* the read succeeded with the vector of the instructions given, and the
\* cursor is behind the end byte (read_expr) or at the terminator (read_util)
DecodedAll ==
    /\ last.k = "ok"
    /\ MatchBody(inst, last.v, last.args)
    /\ last.n = IF last.op = "read_expr" THEN StreamLen + 1 ELSE StreamLen

\* C32 as stated: read_expr and read_util return, for every number k of
\* instructions before the terminator, the vector of size k whose slots hold
\* the instructions in stream order at every nesting depth, the null vector
\* for no instruction, read_expr having consumed the end byte and read_util
\* not.
C32_AnyLength == last.op \in {"read_expr", "read_util"} => DecodedAll

\* C32: the same for k up to u16::MAX; with more instructions before the
\* terminator the read fails (span_linked: expression size overflow).
C32_Decoded ==
    last.op \in {"read_expr", "read_util"} =>
        IF Len(last.args) <= Base - 1 THEN DecodedAll ELSE last.k = "err"

\* a body with a block inside a block has been read by read_util
C32_Nested ==
    /\ last.op = "read_util"
    /\ last.k = "ok"
    /\ \E i \in 1..Len(last.args) :
          /\ last.args[i].op = "BLOCK"
          /\ Len(last.args[i].b0) = 1
          /\ last.args[i].b0[1].op = "IF"
          /\ last.args[i].b0[1].els

(***************************************************************************)
(* The caller's cells during a call (SpecCall)                             *)
(***************************************************************************)
\* the step leaves the cells below index n alone
CellsKept(n) ==
    \A i \in 0..(n - 1) : i < inst.max_stacks => inst'.stack_data[i] = inst.stack_data[i]

\* the end of the caller's operands as save_frame and push_args left it: the
\* cell of the first argument passed to the current frame
CallerTop ==
    inst.offsets[inst.count - 2].stack_base
        + inst.frame_data[inst.count - 2].local_size
        + inst.frame_data[inst.count - 2].stack_size

\* run() is inside a called function
InCallee == phase = "run" /\ inst.count >= 2

\* the parameters of the function call_indirect is about to enter
IndirectParams == IF Callable THEN TableEntry[1].params ELSE 0

\* C33: a call changes neither the caller's locals nor its operand cells
\* below the arguments passed: the call instruction leaves the cells below
\* the arguments alone, and so does every step taken inside the callee (its
\* local.set and local.tee, its pushes, its own calls) up to and with the
\* step that pops its frame and pushes its result.
C33_CallerKept ==
    [][/\ Dispatching("CALL") => CellsKept(TopIndex(inst) + 1 - Callee.params)
       /\ (Dispatching("CALLINDIRECT") /\ inst.stack_size # 0) =>
              CellsKept(TopIndex(inst) - IndirectParams)
       /\ (InCallee /\ ~Dispatching("CALL") /\ ~Dispatching("CALLINDIRECT")) =>
              CellsKept(CallerTop)]_vars

\* busy has returned to keep after its local.set, its local.tee and its call
\* of const7, and keep's local and its operand below the argument are the
\* cell keep was executed with
C33_Returned ==
    /\ last.name = "keep"
    /\ inst.count = 1
    /\ last.args[1] # Zero64
    /\ inst.stack_data[0] = last.args[1]
    /\ inst.stack_data[1] = last.args[1]
    /\ inst.stack_data[3] = U64(6)
    /\ inst.stack_data[5] = U64(7)

(***************************************************************************)
(* Push, pop and peek at the widths of the registers (SpecStack)           *)
(***************************************************************************)
\* the step is the operation op
Stacking(op) == phase \in {"idle", "pushed"} /\ last'.op = op

\* C34: for max_stacks up to u32::MAX and stack_size up to u16::MAX, push(v)
\* fails with stack overflow and changes nothing, or adds one to stack_size
\* so that the pop that follows returns v and restores stack_size; pop and
\* peek on an empty operand stack fail with stack underflow and change
\* nothing.
C34_PushPop ==
    [][/\ Stacking("push") =>
              \/ last'.k = "err" /\ inst' = inst
              \/ last'.k = "ok" /\ inst'.stack_size = inst.stack_size + 1
       /\ (Stacking("pop") /\ phase = "pushed" /\ last.k = "ok") =>
              /\ last'.k = "ok"
              /\ last'.v = last.args[1]
              /\ inst'.stack_size = last.n
       /\ ((Stacking("pop") \/ Stacking("peek")) /\ inst.stack_size = 0
               /\ phase = "idle") =>
              last'.k = "err" /\ inst' = inst]_vars

(***************************************************************************)
(* The table of instances (SpecTable)                                      *)
(***************************************************************************)
\* slot d of the table is empty (no slot is taken before the table is filled)
SlotEmpty(table, d) == Len(table) = 0 \/ table[d + 1] = None

\* d is a slot of the table and holds an instance
SlotLive(table, d) == d >= 0 /\ d < Len(table) /\ table[d + 1] # None

AllLive(table) == \A d \in 0..(MAX_INSTANCES - 1) : SlotLive(table, d)

\* the table before the host's last call
TableBefore == last.pre.INSTANCES

C37_Closed ==
    /\ last.op = "close" =>
           /\ last.k = "ok"
           /\ SlotLive(TableBefore, last.args[1]) =>
                  inst.INSTANCES = [TableBefore EXCEPT ![last.args[1] + 1] = None]
    /\ (last.op = "get_ins_by_id" /\ ~SlotLive(TableBefore, last.args[1])) =>
           last.k = "err" /\ last.v = "instance not found"

(***************************************************************************)
(* Concurrent creators (SpecRace)                                          *)
(***************************************************************************)
\* thread t's createInstance has returned a descriptor
CreatorReturned(t) == native[t].pc = "done" /\ native[t].k = "ok"

\* C36: two createInstance calls running at once on two threads never get
\* the same descriptor, and each created instance is in the slot of its
\* descriptor.
C36_Distinct ==
    (CreatorReturned(1) /\ CreatorReturned(2)) =>
        /\ native[1].v # native[2].v
        /\ \A t \in Threads : inst.INSTANCES[native[t].v + 1] = Some(native[t].made)

(***************************************************************************)
(* Round trips of the packed descriptors (SpecPack)                        *)
(***************************************************************************)
\* C38: in both copies of FrameData, for all 16-bit l, c, s and f,
\* FrameData::new(l, c, s, f) unpacks to label_size() = l, local_size() = c,
\* stack_size() = s and func_bits() = f.
C38_FrameRoundTrip ==
    (phase = "done" /\ last.op \in {"types", "legacy"}) => last.v = inst.args

\* C39: for all 32-bit lb and sb, bit 31 set or not, Offset::new(lb, sb)
\* unpacks to label_base() = lb and stack_base() = sb.
C39_OffsetRoundTrip ==
    (phase = "done" /\ last.op = "offset") => last.v = inst.args

====
